---- MODULE Spec2Model ----
(***************************************************************************)
(* SpoolSense inventory reconciliation: spool and hardware stock as it is  *)
(* deducted and restored by the print-job, order and product-on-hand       *)
(* handlers of backend/app/routers.  Weights are whole grams.              *)
(***************************************************************************)
EXTENDS Integers, Sequences, FiniteSets, TLC

(***************************************************************************)
(* Bounds of the model.                                                    *)
(***************************************************************************)
NumSpools == 2
MaxGrams == 2
MaxAllocs == 2
MaxJobs == 1
MaxUpdates == 1
NumHardware == 2
NumProjects == 2
MaxQty == 3
MaxStock == 10
MaxOrders == 1
MaxOrderUpdates == 3
MaxProducts == 1
MaxProductUpdates == 3
MaxOrderJobs == 2
MaxSpoolRows == 2
MaxTracking == 2
MaxCsvRows == 2

(***************************************************************************)
(* Program constants.                                                      *)
(***************************************************************************)
DefaultReserve == 5
MaxPosition == 6

Max(a, b) == IF a >= b THEN a ELSE b
Min(a, b) == IF a <= b THEN a ELSE b

SpoolIds == 1..NumSpools
MissingSpool == NumSpools + 1
JobIds == 1..MaxJobs
Statuses == {"completed", "failed", "cancelled"}
HardwareIds == 1..NumHardware
MissingHardware == NumHardware + 1
OrderIds == 1..MaxOrders
OrderStatuses == {"ordered", "printed", "finished", "sold"}
ProductIds == 1..MaxProducts
ProjectIds == 1..NumProjects
MissingProject == NumProjects + 1
MissingJob == MaxJobs + 1
ProductStatuses == {"printed", "completed"}

VARIABLES
    spools,     \* Spool.remaining_weight_g of every spool row
    settings,   \* the AppSettings singleton row (exists = FALSE: no row)
    jobs,       \* the print_jobs rows with their print_job_spools
    products,   \* the products_on_hand rows
    hardware,   \* HardwareItem.quantity_in_stock of every hardware item
    orders,     \* the orders rows with their order_hardware lines
    projects,   \* the projects rows with their project_hardware lines
    nextId,     \* next autoincrement id per table
    last,       \* the last request served: its input, outcome and the rows before it
    jobHist,    \* per print job: what its creation and its updates did to the stock
    ordHist,    \* per order: the stock at its creation and around its status round trip
    prodHist,   \* per product on hand: the requests that deducted project hardware
    catalog,    \* the other columns of the spools and hardware_items rows, and the
                \* usage_count of the filament type
    pending     \* the create_spool requests between their duplicate check and commit

vars == <<spools, settings, jobs, products, hardware, orders, projects, nextId, last,
          jobHist, ordHist, prodHist, catalog, pending>>

\* what the print-job handlers never write
others == <<hardware, orders, projects, ordHist, prodHist, catalog, pending>>

-----------------------------------------------------------------------------
(* Rows *)

NoJob ==
    [exists |-> FALSE, status |-> "none", spool_id |-> 0, filament_used_g |-> 0,
     print_job_spools |-> <<>>, order_id |-> 0]

PrintJob(status, spool_id, filament_used_g, pjs, order_id) ==
    [exists |-> TRUE, status |-> status, spool_id |-> spool_id,
     filament_used_g |-> filament_used_g, print_job_spools |-> pjs,
     order_id |-> order_id]

PrintJobSpool(spool_id, filament_used_g, position) ==
    [spool_id |-> spool_id, filament_used_g |-> filament_used_g, position |-> position]

AppSettings(prevent, reserve) ==
    [exists |-> TRUE, enable_spool_negative_prevention |-> prevent,
     minimum_spool_reserve_g |-> reserve,
     webhook_enabled |-> FALSE, webhook_url |-> FALSE, webhook_events |-> {"order_due"}]

NoSettings ==
    [exists |-> FALSE, enable_spool_negative_prevention |-> TRUE,
     minimum_spool_reserve_g |-> 0,
     webhook_enabled |-> FALSE, webhook_url |-> FALSE, webhook_events |-> {}]

\* prevent = settings.enable_spool_negative_prevention if settings else True
prevent_of(st) == IF st.exists THEN st.enable_spool_negative_prevention ELSE TRUE

\* reserve_g = settings.minimum_spool_reserve_g if settings else 5.0
reserve_of(st) == IF st.exists THEN st.minimum_spool_reserve_g ELSE DefaultReserve

\* an order_hardware row; a one-off line has no hardware item (0 = None)
\* (one_off_cost is 0 unless the request sets it; unit_cost_snapshot is the
\* column the handler fills, in ten-thousandths)
OrderHardware(hardware_item_id, quantity, is_one_off) ==
    [hardware_item_id |-> IF is_one_off THEN 0 ELSE hardware_item_id,
     quantity |-> quantity, is_one_off |-> is_one_off,
     one_off_cost |-> 0, unit_cost_snapshot |-> 0]

\* an order_spools row
\* (cost_per_kg_snapshot is the column the handler fills, in ten-thousandths)
OrderSpool(spool_id, filament_grams, position) ==
    [spool_id |-> spool_id, filament_grams |-> filament_grams, position |-> position,
     cost_per_kg_snapshot |-> 0]

NoOrder ==
    [exists |-> FALSE, status |-> "none", project_id |-> 0, spool_id |-> 0,
     order_spools |-> <<>>, order_hardware |-> <<>>,
     filament_grams_snapshot |-> 0]

\* an orders row with its order_spools (by position) and order_hardware rows;
\* filament_grams_snapshot 0 is None
Order(status, project_id, spool_id, order_spools, order_hardware) ==
    [exists |-> TRUE, status |-> status, project_id |-> project_id,
     spool_id |-> spool_id, order_spools |-> order_spools,
     order_hardware |-> order_hardware, filament_grams_snapshot |-> 0]

\* a project_hardware row
ProjectHardware(hardware_item_id, quantity) ==
    [hardware_item_id |-> hardware_item_id, quantity |-> quantity]

NoProject == [exists |-> FALSE, hardware |-> <<>>, filament_grams |-> 0]

\* a projects row with its project_hardware rows; filament_grams 0 is None
Project(project_hardware, filament_grams) ==
    [exists |-> TRUE, hardware |-> project_hardware, filament_grams |-> filament_grams]

\* the columns of a spools row beside remaining_weight_g that the handlers read;
\* tracking_id 0 is None
Spool(tracking_id, purchase_price, total_weight_g) ==
    [tracking_id |-> tracking_id, purchase_price |-> purchase_price,
     total_weight_g |-> total_weight_g]

\* the columns of a hardware_items row beside quantity_in_stock
HardwareItem(purchase_price, quantity_purchased) ==
    [purchase_price |-> purchase_price, quantity_purchased |-> quantity_purchased]

\* round(x, 4) keeps ten-thousandths: the costs below are whole numbers of them
FourDecimals == 10000

\* round(x, 2) keeps hundredths
TwoDecimals == 100

\* the grams of a kilogram
GramsPerKg == 1000

\* round(n / d, 0) for d > 0, a tie going to the even neighbour
RoundHalfEven(n, d) ==
    LET q == n \div d
        r == n % d
    IN  IF 2 * r > d THEN q + 1
        ELSE IF 2 * r < d THEN q
        ELSE IF q % 2 = 0 THEN q ELSE q + 1

\* round((spool.purchase_price / spool.total_weight_g) * 1000, 4)
\*     if spool.total_weight_g > 0 else 0.0
cost_per_kg(spool) ==
    IF spool.total_weight_g > 0
    THEN RoundHalfEven(spool.purchase_price * GramsPerKg * FourDecimals,
                       spool.total_weight_g)
    ELSE 0

\* HardwareItem.cost_per_item
cost_per_item(item) ==
    IF item.quantity_purchased <= 0 THEN 0
    ELSE RoundHalfEven(item.purchase_price * FourDecimals, item.quantity_purchased)

NoProduct ==
    [exists |-> FALSE, project_id |-> 0, print_job_id |-> 0, status |-> "none",
     location |-> FALSE]

\* a products_on_hand row; of the location only whether it is set
ProductOnHand(project_id, print_job_id, status, location) ==
    [exists |-> TRUE, project_id |-> project_id, print_job_id |-> print_job_id,
     status |-> status, location |-> location]

-----------------------------------------------------------------------------
(* relationship(order_by=PrintJobSpool.position) and the unique constraint *)

RECURSIVE InsertByPosition(_, _)
InsertByPosition(sorted, e) ==
    IF sorted = <<>> THEN <<e>>
    ELSE IF e.position < Head(sorted).position THEN <<e>> \o sorted
    ELSE <<Head(sorted)>> \o InsertByPosition(Tail(sorted), e)

RECURSIVE OrderByPosition(_)
OrderByPosition(rows) ==
    IF rows = <<>> THEN <<>>
    ELSE InsertByPosition(OrderByPosition(Tail(rows)), Head(rows))

\* mutation: the positions are not compared
UniquePositionsUnchecked(rows) == TRUE

UniquePositions(rows) ==
    \A i, k \in 1..Len(rows) : i # k => rows[i].position # rows[k].position

\* schemas: position: int = Field(..., ge=1, le=6) of every entry of a list
PositionsValid(rows) == \A i \in 1..Len(rows) : rows[i].position \in 1..MaxPosition

\* as many positions as rows
DistinctPositions(rows) ==
    Cardinality({rows[i].position : i \in 1..Len(rows)}) = Len(rows)

-----------------------------------------------------------------------------
(* print_jobs.py: _deduct_spool *)

\* mutation: the clamp is forgotten
_deduct_spool_unclamped(remaining_weight_g, grams, prevent_negative) ==
    remaining_weight_g - grams

_deduct_spool(remaining_weight_g, grams, prevent_negative) ==
    IF prevent_negative
    THEN Max(0, remaining_weight_g - grams)
    ELSE remaining_weight_g - grams

(* spool_validator.py: validate_spool_inventory *)

\* mutation: the reserve is what decides within_reserve
SpoolShortageStrict(spool_id, remaining, grams_to_use) ==
    [spool_id |-> spool_id,
     current_weight_g |-> remaining,
     requested_weight_g |-> grams_to_use,
     resulting_weight_g |-> remaining - grams_to_use,
     shortage_g |-> Max(0, grams_to_use - remaining),
     within_reserve |-> remaining > grams_to_use]

SpoolShortage(spool_id, remaining, grams_to_use) ==
    [spool_id |-> spool_id,
     current_weight_g |-> remaining,
     requested_weight_g |-> grams_to_use,
     resulting_weight_g |-> remaining - grams_to_use,
     shortage_g |-> Max(0, grams_to_use - remaining),
     within_reserve |-> remaining >= grams_to_use]

RECURSIVE Shortages(_, _, _)
Shortages(sp, reserve_g, spool_usages) ==
    IF spool_usages = <<>> THEN <<>>
    ELSE LET u == Head(spool_usages)
             rest == Shortages(sp, reserve_g, Tail(spool_usages))
         IN IF u.spool_id \notin DOMAIN sp THEN rest
            ELSE IF (sp[u.spool_id] - reserve_g) - u.filament_used_g < 0
                 THEN <<SpoolShortage(u.spool_id, sp[u.spool_id], u.filament_used_g)>> \o rest
                 ELSE rest

\* mutation: only the first pair of the batch is looked at
\* what a batch asks of a spool in all
RECURSIVE DemandOn(_, _)
DemandOn(spool_usages, s) ==
    IF spool_usages = <<>> THEN 0
    ELSE (IF Head(spool_usages).spool_id = s THEN Head(spool_usages).filament_used_g ELSE 0)
         + DemandOn(Tail(spool_usages), s)

\* validate_spool_inventory checking every pair with all the batch asks of
\* its spool
validate_spool_inventory_cumulative(sp, st, spool_usages) ==
    IF ~prevent_of(st)
    THEN [is_valid |-> TRUE, shortages |-> <<>>]
    ELSE LET summed == [i \in DOMAIN spool_usages |->
                           [spool_usages[i] EXCEPT !.filament_used_g =
                                DemandOn(spool_usages, spool_usages[i].spool_id)]]
             shortages == Shortages(sp, reserve_of(st), summed)
         IN [is_valid |-> Len(shortages) = 0, shortages |-> shortages]

validate_spool_inventory_first_only(sp, st, spool_usages) ==
    IF ~prevent_of(st)
    THEN [is_valid |-> TRUE, shortages |-> <<>>]
    ELSE LET shortages == Shortages(sp, reserve_of(st),
                                    SubSeq(spool_usages, 1, Min(1, Len(spool_usages))))
         IN [is_valid |-> Len(shortages) = 0, shortages |-> shortages]

validate_spool_inventory(sp, st, spool_usages) ==
    IF ~prevent_of(st)
    THEN [is_valid |-> TRUE, shortages |-> <<>>]
    ELSE LET shortages == Shortages(sp, reserve_of(st), spool_usages)
         IN [is_valid |-> Len(shortages) = 0, shortages |-> shortages]

Usage(spool_id, grams) == [spool_id |-> spool_id, filament_used_g |-> grams]

(* schemas/filament.py and the detail of the 422 the handlers raise.  The   *)
(* handlers pass every field of a shortage to SpoolShortageResponse but    *)
(* within_reserve, which takes its default.                                *)

SpoolShortageResponse(s) ==
    [spool_id |-> s.spool_id,
     current_weight_g |-> s.current_weight_g,
     requested_weight_g |-> s.requested_weight_g,
     resulting_weight_g |-> s.resulting_weight_g,
     shortage_g |-> s.shortage_g,
     within_reserve |-> FALSE]

SpoolValidationResponse(validation) ==
    [is_valid |-> FALSE, has_warnings |-> TRUE,
     shortages |-> [i \in 1..Len(validation.shortages) |->
                        SpoolShortageResponse(validation.shortages[i])]]

NoValidation == [is_valid |-> TRUE, shortages |-> <<>>]

NoDetail == [type |-> "none", validation |-> NoValidation]

\* detail={"type": "spool_shortage", "validation": SpoolValidationResponse(...)}
ShortageDetail(validation) ==
    [type |-> "spool_shortage", validation |-> SpoolValidationResponse(validation)]

-----------------------------------------------------------------------------
(* The loops that deduct and restore a list of allocations, one spool      *)
(* after the other in list order.                                          *)

RECURSIVE DeductEach(_, _, _)
DeductEach(sp, entries, prevent) ==
    IF entries = <<>> THEN sp
    ELSE LET e == Head(entries)
         IN DeductEach(
                [sp EXCEPT ![e.spool_id] = _deduct_spool(@, e.filament_used_g, prevent)],
                Tail(entries), prevent)

\* mutation: the loop stops after the first row
RestoreFirstOnly(sp, rows) ==
    IF rows = <<>> THEN sp
    ELSE IF Head(rows).spool_id \in DOMAIN sp
         THEN [sp EXCEPT ![Head(rows).spool_id] = @ + Head(rows).filament_used_g]
    ELSE sp

RECURSIVE RestoreEach(_, _)
RestoreEach(sp, rows) ==
    IF rows = <<>> THEN sp
    ELSE LET r == Head(rows)
         IN RestoreEach(
                IF r.spool_id \in DOMAIN sp
                THEN [sp EXCEPT ![r.spool_id] = @ + r.filament_used_g]
                ELSE sp,
                Tail(rows))

AllSpoolsExist(sp, entries) ==
    \A i \in 1..Len(entries) : entries[i].spool_id \in DOMAIN sp

-----------------------------------------------------------------------------
(* The outcome of a handler: the HTTP status, whether db.commit() was      *)
(* reached and succeeded, the session's rows at that point, and how many   *)
(* times the handler called _deduct_spool with a positive amount.          *)

Outcome(code, committed, sp, jb, deducts) ==
    [code |-> code, committed |-> committed, spools |-> sp, jobs |-> jb,
     deducts |-> deducts, detail |-> NoDetail, validation |-> NoValidation]

Rejected(code, sp, jb) == Outcome(code, FALSE, sp, jb, 0)

\* the 422 of a shortage: the response's detail and the validation result
\* it was built from
ShortageRejected(sp, jb, validation) ==
    [Rejected(422, sp, jb) EXCEPT !.detail = ShortageDetail(validation),
                                  !.validation = validation]

(* database.py: get_db.  The session is closed when the request ends; what *)
(* was not committed is discarded.                                         *)
\* mutation: what the session flushed survives the failed request
get_db_keeps_session(stored, session, committed) == session

get_db(stored, session, committed) == IF committed THEN session ELSE stored

-----------------------------------------------------------------------------
(* print_jobs.py: create_print_job *)

\* mutation: the status is not looked at before the stock is taken
_create_single_spool_any_status(sp, st, jb, id, data) ==
    LET consumes == data.filament_used_g > 0
    IN IF data.spool_id \notin DOMAIN sp THEN Rejected(400, sp, jb)
       ELSE IF /\ consumes
               /\ ~data.force
               /\ ~validate_spool_inventory(
                      sp, st, <<Usage(data.spool_id, data.filament_used_g)>>).is_valid
            THEN ShortageRejected(sp, jb,
                     validate_spool_inventory(
                         sp, st, <<Usage(data.spool_id, data.filament_used_g)>>))
       ELSE Outcome(201, TRUE,
                IF consumes
                THEN [sp EXCEPT ![data.spool_id] =
                          _deduct_spool(@, data.filament_used_g, prevent_of(st))]
                ELSE sp,
                [jb EXCEPT ![id] =
                     PrintJob(data.status, data.spool_id, data.filament_used_g, <<>>, 0)],
                IF consumes THEN 1 ELSE 0)

_create_single_spool_print_job(sp, st, jb, id, data) ==
    LET consumes == data.status = "completed" /\ data.filament_used_g > 0
    IN IF data.spool_id \notin DOMAIN sp THEN Rejected(400, sp, jb)
       ELSE IF /\ consumes
               /\ ~data.force
               /\ ~validate_spool_inventory(
                      sp, st, <<Usage(data.spool_id, data.filament_used_g)>>).is_valid
            THEN ShortageRejected(sp, jb,
                     validate_spool_inventory(
                         sp, st, <<Usage(data.spool_id, data.filament_used_g)>>))
       ELSE Outcome(201, TRUE,
                IF consumes
                THEN [sp EXCEPT ![data.spool_id] =
                          _deduct_spool(@, data.filament_used_g, prevent_of(st))]
                ELSE sp,
                [jb EXCEPT ![id] =
                     PrintJob(data.status, data.spool_id, data.filament_used_g, <<>>, 0)],
                IF consumes THEN 1 ELSE 0)

_create_multicolor_print_job(sp, st, jb, id, data) ==
    IF ~AllSpoolsExist(sp, data.spools) THEN Rejected(400, sp, jb)
    ELSE IF /\ data.status = "completed"
            /\ ~data.force
            /\ ~validate_spool_inventory(sp, st, data.spools).is_valid
         THEN ShortageRejected(sp, jb, validate_spool_inventory(sp, st, data.spools))
    ELSE Outcome(201, TRUE,
             IF data.status = "completed"
             THEN DeductEach(sp, data.spools, prevent_of(st))
             ELSE sp,
             [jb EXCEPT ![id] =
                  PrintJob(data.status, 0, 0, OrderByPosition(data.spools), 0)],
             IF data.status = "completed" THEN Len(data.spools) ELSE 0)

create_print_job(sp, st, jb, id, data) ==
    IF data.spools # <<>> THEN _create_multicolor_print_job(sp, st, jb, id, data)
    ELSE IF data.spool_id # 0 THEN _create_single_spool_print_job(sp, st, jb, id, data)
    ELSE Rejected(400, sp, jb)

(* schemas/print_job.py: PrintJobCreate.validate_spool_data and            *)
(* PrintJobBase.validate_unique_positions                                  *)
PrintJobCreateValid(data) ==
    /\ (data.spool_id # 0) # (data.spools # <<>>)
    /\ UniquePositions(data.spools)
    /\ Len(data.spools) <= MaxPosition
    /\ PositionsValid(data.spools)

-----------------------------------------------------------------------------
(* print_jobs.py: update_print_job *)

\* the restore of the job's present consumption before its list is replaced
restore_existing(sp, job) ==
    IF job.status # "completed" THEN sp
    ELSE IF job.print_job_spools # <<>> THEN RestoreEach(sp, job.print_job_spools)
    ELSE IF job.spool_id # 0 /\ job.filament_used_g # 0 /\ job.spool_id \in DOMAIN sp
         THEN [sp EXCEPT ![job.spool_id] = @ + job.filament_used_g]
    ELSE sp

\* if spools_was_set and spools_update is not None: ...
replace_spools(sp, st, job, data) ==
    LET restored == restore_existing(sp, job)
        new_status == IF data.status_set THEN data.status ELSE job.status
    IN IF ~AllSpoolsExist(restored, data.spools)
       THEN [code |-> 400, spools |-> restored, deducts |-> 0,
             validation |-> NoValidation]
       ELSE IF /\ new_status = "completed"
               /\ ~data.force
               /\ ~validate_spool_inventory(restored, st, data.spools).is_valid
            THEN [code |-> 422, spools |-> restored, deducts |-> 0,
                  validation |-> validate_spool_inventory(restored, st, data.spools)]
       ELSE IF new_status = "completed"
            THEN [code |-> 200,
                  spools |-> DeductEach(restored, data.spools, prevent_of(st)),
                  deducts |-> Len(data.spools), validation |-> NoValidation]
            ELSE [code |-> 200, spools |-> restored, deducts |-> 0,
                  validation |-> NoValidation]

\* mutation: the new amount is validated and deducted, not the difference
legacy_amount_change_whole(sp, st, job, data) ==
    IF job.spool_id \notin DOMAIN sp
    THEN [code |-> 200, spools |-> sp, deducts |-> 0, validation |-> NoValidation]
    ELSE LET new_used == data.filament_used_g
         IN IF /\ new_used > 0
               /\ ~data.force
               /\ ~validate_spool_inventory(
                      sp, st, <<Usage(job.spool_id, new_used)>>).is_valid
            THEN [code |-> 422, spools |-> sp, deducts |-> 0,
                  validation |-> validate_spool_inventory(
                                     sp, st, <<Usage(job.spool_id, new_used)>>)]
            ELSE [code |-> 200,
                  spools |-> [sp EXCEPT ![job.spool_id] =
                                  _deduct_spool(@, new_used, prevent_of(st))],
                  deducts |-> IF new_used > 0 THEN 1 ELSE 0,
                  validation |-> NoValidation]

\* elif "filament_used_g" in update_data and job.status == "completed"
\*      and not job.print_job_spools: ...
legacy_amount_change(sp, st, job, data) ==
    IF job.spool_id \notin DOMAIN sp
    THEN [code |-> 200, spools |-> sp, deducts |-> 0, validation |-> NoValidation]
    ELSE LET old_used == job.filament_used_g
             new_used == data.filament_used_g
             net_change == new_used - old_used
         IN IF /\ net_change > 0
               /\ ~data.force
               /\ ~validate_spool_inventory(
                      sp, st, <<Usage(job.spool_id, net_change)>>).is_valid
            THEN [code |-> 422, spools |-> sp, deducts |-> 0,
                  validation |-> validate_spool_inventory(
                                     sp, st, <<Usage(job.spool_id, net_change)>>)]
            ELSE [code |-> 200,
                  spools |-> [sp EXCEPT ![job.spool_id] =
                                  _deduct_spool(@, new_used - old_used, prevent_of(st))],
                  deducts |-> IF net_change > 0 THEN 1 ELSE 0,
                  validation |-> NoValidation]

\* for key, value in update_data.items(): setattr(job, key, value)
apply_update_data(job, data) ==
    [job EXCEPT
        !.status = IF data.status_set THEN data.status ELSE @,
        !.filament_used_g = IF data.filament_used_g_set THEN data.filament_used_g ELSE @,
        !.spool_id = IF data.spool_id_set THEN data.spool_id ELSE @,
        !.print_job_spools = IF data.spools_set THEN OrderByPosition(data.spools) ELSE @]

update_print_job(sp, st, jb, id, data) ==
    IF id \notin DOMAIN jb \/ ~jb[id].exists THEN Rejected(404, sp, jb)
    ELSE
    LET job == jb[id]
        step == IF data.spools_set THEN replace_spools(sp, st, job, data)
                ELSE IF /\ data.filament_used_g_set
                        /\ job.status = "completed"
                        /\ job.print_job_spools = <<>>
                     THEN legacy_amount_change(sp, st, job, data)
                ELSE [code |-> 200, spools |-> sp, deducts |-> 0,
                      validation |-> NoValidation]
    IN IF step.code = 422 THEN ShortageRejected(step.spools, jb, step.validation)
       ELSE IF step.code # 200 THEN Rejected(step.code, step.spools, jb)
       ELSE IF data.spool_id_set /\ data.spool_id \notin DOMAIN sp
            THEN Rejected(400, step.spools, jb)
       \* db.commit(): uq_print_job_spool_position refuses two rows on one position
       ELSE IF data.spools_set /\ ~UniquePositions(data.spools)
            THEN Rejected(500, step.spools, jb)
       ELSE Outcome(200, TRUE, step.spools,
                    [jb EXCEPT ![id] = apply_update_data(job, data)], step.deducts)

-----------------------------------------------------------------------------
(* print_jobs.py: delete_print_job *)

LinkedProduct(prods, job_id) ==
    \E p \in DOMAIN prods : prods[p].exists /\ prods[p].print_job_id = job_id

\* mutation: the legacy single-spool branch is forgotten
delete_print_job_rows_only(sp, jb, prods, id) ==
    IF id \notin DOMAIN jb \/ ~jb[id].exists THEN Rejected(404, sp, jb)
    ELSE IF LinkedProduct(prods, id) THEN Rejected(400, sp, jb)
    ELSE Outcome(204, TRUE,
                 IF jb[id].status = "completed"
                 THEN RestoreEach(sp, jb[id].print_job_spools) ELSE sp,
                 [jb EXCEPT ![id] = NoJob], 0)

\* mutation: the products on hand are not asked
delete_print_job_ignoring_products(sp, jb, prods, id) ==
    IF id \notin DOMAIN jb \/ ~jb[id].exists THEN Rejected(404, sp, jb)
    ELSE Outcome(204, TRUE,
                 IF jb[id].status # "completed" THEN sp
                 ELSE IF jb[id].print_job_spools # <<>>
                      THEN RestoreEach(sp, jb[id].print_job_spools)
                 ELSE IF /\ jb[id].spool_id # 0 /\ jb[id].filament_used_g > 0
                         /\ jb[id].spool_id \in DOMAIN sp
                      THEN [sp EXCEPT ![jb[id].spool_id] = @ + jb[id].filament_used_g]
                 ELSE sp,
                 [jb EXCEPT ![id] = NoJob], 0)

delete_print_job(sp, jb, prods, id) ==
    IF id \notin DOMAIN jb \/ ~jb[id].exists THEN Rejected(404, sp, jb)
    ELSE IF LinkedProduct(prods, id) THEN Rejected(400, sp, jb)
    ELSE LET job == jb[id]
             restored ==
                 IF job.status # "completed" THEN sp
                 ELSE IF job.print_job_spools # <<>>
                      THEN RestoreEach(sp, job.print_job_spools)
                 ELSE IF /\ job.spool_id # 0
                         /\ job.filament_used_g > 0
                         /\ job.spool_id \in DOMAIN sp
                      THEN [sp EXCEPT ![job.spool_id] = @ + job.filament_used_g]
                 ELSE sp
         IN Outcome(204, TRUE, restored, [jb EXCEPT ![id] = NoJob], 0)

-----------------------------------------------------------------------------
(* Requests the model serves *)

\* allocation lists whose positions follow the list order, and one list each
\* with the positions reversed, with a position used twice, with an unknown spool
SpoolEntries(p) == {PrintJobSpool(s, g, p) : s \in SpoolIds, g \in 1..MaxGrams}

SpoolLists ==
    UNION {{l \in [1..n -> SpoolEntries(1) \cup SpoolEntries(2) \cup SpoolEntries(3)] :
               \A i \in 1..n : l[i].position = i} : n \in 0..Min(MaxAllocs, 3)}

ReversedList == <<PrintJobSpool(1, 1, 2), PrintJobSpool(NumSpools, MaxGrams, 1)>>
DuplicatePositionList == <<PrintJobSpool(1, 1, 1), PrintJobSpool(1, 1, 1)>>
MissingSpoolList == <<PrintJobSpool(MissingSpool, 1, 1)>>

PrintJobCreateInputs ==
    [spool_id : SpoolIds \cup {MissingSpool}, filament_used_g : 0..MaxGrams,
     spools : {<<>>}, status : Statuses, force : BOOLEAN]
    \cup
    [spool_id : {0}, filament_used_g : {0},
     spools : (SpoolLists \ {<<>>}) \cup {ReversedList, MissingSpoolList},
     status : Statuses, force : BOOLEAN]

NoneSet == {[set |-> FALSE, value |-> 0]}
NoStatus == {[set |-> FALSE, value |-> "none"]}
NoSpools == {[set |-> FALSE, value |-> <<>>]}
Given(S) == [set : {TRUE}, value : S]

PrintJobUpdate(status, spool_list, filament_used_g, spool_id, force) ==
    [status_set |-> status.set, status |-> status.value,
     spools_set |-> spool_list.set, spools |-> spool_list.value,
     filament_used_g_set |-> filament_used_g.set, filament_used_g |-> filament_used_g.value,
     spool_id_set |-> spool_id.set, spool_id |-> spool_id.value,
     force |-> force]

\* the statuses an update asks for ("cancelled" is handled as "failed" is)
UpdateStatuses == {"completed", "failed"}

\* an update that replaces the allocation list, one that changes the legacy
\* fields, and one that does both
PrintJobUpdateInputs ==
    {PrintJobUpdate(st, sl, fg, si, f) :
        st \in NoStatus \cup Given(UpdateStatuses),
        sl \in Given(SpoolLists \cup {ReversedList, DuplicatePositionList, MissingSpoolList}),
        fg \in NoneSet, si \in NoneSet, f \in BOOLEAN}
    \cup
    {PrintJobUpdate(st, sl, fg, si, f) :
        st \in NoStatus \cup Given(UpdateStatuses),
        sl \in NoSpools,
        fg \in NoneSet \cup Given(0..MaxGrams),
        si \in NoneSet \cup Given(SpoolIds \cup {MissingSpool}),
        f \in BOOLEAN}
    \cup
    {PrintJobUpdate(st, sl, fg, si, f) :
        st \in NoStatus \cup Given(UpdateStatuses),
        sl \in Given({l \in SpoolLists : Len(l) <= 1}),
        fg \in Given(0..MaxGrams),
        si \in NoneSet,
        f \in {FALSE}}

NoUpdate == PrintJobUpdate([set |-> FALSE, value |-> "none"], [set |-> FALSE, value |-> <<>>],
                           [set |-> FALSE, value |-> 0], [set |-> FALSE, value |-> 0], FALSE)

-----------------------------------------------------------------------------
(* State *)

NoHist ==
    [created_status |-> "none", stock_before_create |-> <<>>, untouched |-> FALSE,
     deducts_at_create |-> 0, deducted_by_update |-> FALSE, updates |-> 0]

NoRequest ==
    [op |-> "none", code |-> 0, id |-> 0, force |-> FALSE,
     stock_before |-> <<>>, job_before |-> NoJob,
     spools_set |-> FALSE, amount_set |-> FALSE, amount |-> 0, spool_id_set |-> FALSE,
     status |-> "none", deducts |-> 0, detail |-> NoDetail, validation |-> NoValidation,
     names_missing |-> FALSE]

\* the request, its answer and the rows it found; of an update's data: which of the
\* consumption fields it set and the status it asked for
Request(op, r, id, force, data) ==
    [op |-> op, code |-> r.code, id |-> id, force |-> force,
     deducts |-> IF r.committed THEN r.deducts ELSE 0,
     stock_before |-> spools, job_before |-> IF id \in DOMAIN jobs THEN jobs[id] ELSE NoJob,
     spools_set |-> data.spools_set, amount_set |-> data.filament_used_g_set,
     amount |-> data.filament_used_g, spool_id_set |-> data.spool_id_set,
     status |-> data.status, detail |-> r.detail, validation |-> r.validation,
     names_missing |-> \/ data.spool_id_set /\ data.spool_id \notin SpoolIds
                       \/ data.spools_set /\ ~AllSpoolsExist(spools, data.spools),
     duplicate |-> data.spools_set /\ ~DistinctPositions(data.spools)]

NoOrdHist ==
    [created_status |-> "none", stock_before_create |-> <<>>, untouched |-> FALSE,
     deducted |-> FALSE, round_trip |-> "none", restored_from |-> <<>>,
     was_deducted |-> FALSE, updates |-> 0]

NoProdHist ==
    [created_status |-> "none", deductions |-> 0, at_creation |-> FALSE,
     off_transition |-> FALSE, updates |-> 0]

\* a committed request is a mutation for every other job
Touch(hist) == [k \in DOMAIN hist |-> [hist[k] EXCEPT !.untouched = FALSE]]

InitialWeights == {MaxGrams - 1, DefaultReserve + MaxGrams + 1}

\* every spool was bought full at DefaultReserve + MaxGrams + 1 grams; spools
\* and hardware cost nothing and carry no tracking id
PlainCatalog ==
    [spools |-> [s \in SpoolIds |-> Spool(0, 0, DefaultReserve + MaxGrams + 1)],
     hardware |-> [h \in HardwareIds |-> HardwareItem(0, 1)],
     usage_count |-> 0]

InitialSettings == {NoSettings, AppSettings(FALSE, DefaultReserve), AppSettings(TRUE, 0)}

Init ==
    /\ spools \in {w \in [SpoolIds -> InitialWeights] :
                        \A a, b \in SpoolIds : a <= b => w[a] <= w[b]}
    /\ settings \in InitialSettings
    /\ jobs = [j \in JobIds |-> NoJob]
    /\ products = [p \in ProductIds |-> NoProduct]
    /\ hardware = [h \in HardwareIds |-> MaxQty]
    /\ orders = [o \in OrderIds |-> NoOrder]
    /\ projects = <<>>
    /\ nextId = [job |-> 1, order |-> 1, product |-> 1]
    /\ last = NoRequest
    /\ jobHist = [j \in JobIds |-> NoHist]
    /\ ordHist = [o \in OrderIds |-> NoOrdHist]
    /\ prodHist = [p \in ProductIds |-> NoProdHist]
    /\ catalog = PlainCatalog
    /\ pending = <<>>

-----------------------------------------------------------------------------
(* Print-job requests *)

CreatePrintJobFrom(inputs) ==
    /\ nextId.job \in JobIds
    /\ \E data \in inputs :
        /\ PrintJobCreateValid(data)
        /\ LET id == nextId.job
               r == create_print_job(spools, settings, jobs, id, data)
           IN /\ spools' = get_db(spools, r.spools, r.committed)
              /\ jobs' = get_db(jobs, r.jobs, r.committed)
              /\ nextId' = IF r.committed THEN [nextId EXCEPT !.job = @ + 1] ELSE nextId
              /\ last' = [Request("create_print_job", r, id, data.force, NoUpdate)
                            EXCEPT !.names_missing =
                                \/ data.spool_id # 0 /\ data.spool_id \notin SpoolIds
                                \/ ~AllSpoolsExist(spools, data.spools)]
              /\ jobHist' =
                    IF r.committed
                    THEN [Touch(jobHist) EXCEPT ![id] =
                             [created_status |-> data.status,
                              stock_before_create |-> spools,
                              untouched |-> TRUE,
                              deducts_at_create |-> r.deducts,
                              deducted_by_update |-> FALSE,
                              updates |-> 0]]
                    ELSE jobHist
    /\ UNCHANGED <<settings, products, others>>

CreatePrintJob == CreatePrintJobFrom(PrintJobCreateInputs)

UpdatePrintJobFrom(inputs) ==
    /\ \E id \in JobIds, data \in inputs :
        /\ jobs[id].exists
        /\ jobHist[id].updates < MaxUpdates
        /\ PositionsValid(data.spools)
        /\ LET r == update_print_job(spools, settings, jobs, id, data)
               touched == IF r.committed THEN Touch(jobHist) ELSE jobHist
           IN /\ spools' = get_db(spools, r.spools, r.committed)
              /\ jobs' = get_db(jobs, r.jobs, r.committed)
              /\ last' = Request("update_print_job", r, id, data.force, data)
              /\ jobHist' =
                    [touched EXCEPT
                        ![id].updates = @ + 1,
                        ![id].deducted_by_update = @ \/ (r.committed /\ r.deducts > 0)]
    /\ UNCHANGED <<settings, products, nextId, others>>

UpdatePrintJob == UpdatePrintJobFrom(PrintJobUpdateInputs)

DeletePrintJob ==
    /\ \E id \in JobIds :
        /\ jobs[id].exists
        /\ LET r == delete_print_job(spools, jobs, products, id)
           IN /\ spools' = get_db(spools, r.spools, r.committed)
              /\ jobs' = get_db(jobs, r.jobs, r.committed)
              /\ last' = Request("delete_print_job", r, id, FALSE, NoUpdate)
              /\ jobHist' =
                    IF r.committed
                    THEN [k \in DOMAIN jobHist |->
                             IF k = id THEN jobHist[k]
                             ELSE [jobHist[k] EXCEPT !.untouched = FALSE]]
                    ELSE jobHist
    /\ UNCHANGED <<settings, products, nextId, others>>

\* a request that names a print job that does not exist
PrintJobNotFound ==
    /\ \E id \in JobIds, op \in {"update_print_job", "delete_print_job"} :
        /\ ~jobs[id].exists
        /\ LET r == IF op = "update_print_job"
                    THEN update_print_job(spools, settings, jobs, id, NoUpdate)
                    ELSE delete_print_job(spools, jobs, products, id)
           IN /\ spools' = get_db(spools, r.spools, r.committed)
              /\ jobs' = get_db(jobs, r.jobs, r.committed)
              /\ last' = Request(op, r, id, FALSE, NoUpdate)
    /\ UNCHANGED <<settings, products, nextId, jobHist, others>>

NextPJ == CreatePrintJob \/ UpdatePrintJob \/ DeletePrintJob \/ PrintJobNotFound

SpecPJ == Init /\ [][NextPJ]_vars

-----------------------------------------------------------------------------
(* What the claims speak of *)

RECURSIVE SumOn(_, _)
SumOn(rows, s) ==
    IF rows = <<>> THEN 0
    ELSE (IF Head(rows).spool_id = s THEN Head(rows).filament_used_g ELSE 0)
         + SumOn(Tail(rows), s)

\* the consumption a print job records: its allocation rows, or else its
\* legacy spool and amount
Allocations(job) ==
    IF job.print_job_spools # <<>> THEN job.print_job_spools
    ELSE IF job.spool_id # 0 /\ job.filament_used_g > 0
         THEN <<PrintJobSpool(job.spool_id, job.filament_used_g, 1)>>
    ELSE <<>>

\* the clamp rule applied to a spool from which `total` is taken
ClampRule(before, total) ==
    IF total = 0 THEN before
    ELSE IF prevent_of(settings) THEN Max(0, before - total)
    ELSE before - total

Created == last.op = "create_print_job" /\ last.code = 201
Updated == last.op = "update_print_job" /\ last.code = 200
Deleted == last.op = "delete_print_job" /\ last.code = 204
Shortage == last.code = 422

\* C1: a print job created as completed leaves every spool at its weight before
\* the request minus the job's amounts on it, not below 0 when negative-prevention
\* is enabled and possibly below 0 when it is disabled.
C1_CreateCompletedDeducts ==
    (Created /\ jobs[last.id].status = "completed") =>
        \A s \in SpoolIds :
            spools[s] = ClampRule(last.stock_before[s],
                                  SumOn(Allocations(jobs[last.id]), s))

C1_Witness ==
    /\ Created /\ jobs[last.id].status = "completed"
    /\ prevent_of(settings)
    /\ Len(jobs[last.id].print_job_spools) = 2
    /\ \E s \in SpoolIds :
        /\ last.stock_before[s] > 0
        /\ last.stock_before[s] < SumOn(Allocations(jobs[last.id]), s)
        /\ spools[s] = 0

\* C2: deleting a completed print job adds each of its amounts back to its spool,
\* unclamped, whatever the prevention setting; deleting a failed or cancelled job
\* changes no spool.
C2_DeleteRestores ==
    Deleted =>
        \A s \in SpoolIds :
            spools[s] = last.stock_before[s]
                        + (IF last.job_before.status = "completed"
                           THEN SumOn(Allocations(last.job_before), s) ELSE 0)

C2_Witness ==
    /\ Deleted /\ last.job_before.status = "completed"
    /\ prevent_of(settings)
    /\ Len(last.job_before.print_job_spools) = 2
    /\ \E s \in SpoolIds : spools[s] = last.stock_before[s] + 2 * MaxGrams

\* C3: a completed print job that is created and then deleted with no mutation in
\* between leaves every spool at its weight before the creation, provided
\* prevention is disabled or no spool was asked for more than it held.
C3_CreateDeleteRoundTrip ==
    (/\ Deleted
     /\ jobHist[last.id].untouched
     /\ jobHist[last.id].created_status = "completed"
     /\ \/ ~prevent_of(settings)
        \/ \A s \in SpoolIds :
              SumOn(Allocations(last.job_before), s) <= jobHist[last.id].stock_before_create[s])
    => spools = jobHist[last.id].stock_before_create

C3_Witness ==
    /\ Deleted
    /\ jobHist[last.id].untouched
    /\ jobHist[last.id].created_status = "completed"
    /\ prevent_of(settings)
    /\ \E s \in SpoolIds :
        /\ SumOn(Allocations(last.job_before), s) > 0
        /\ last.stock_before[s] < jobHist[last.id].stock_before_create[s]
    /\ spools = jobHist[last.id].stock_before_create

\* C4 as claimed: a job's stock is deducted at its creation only, and only if it
\* was created as completed; no update of a job ever deducts.
C4_DeductedOnlyAtCreation ==
    \A j \in JobIds :
        jobHist[j].created_status # "none" =>
            /\ ~jobHist[j].deducted_by_update
            /\ jobHist[j].deducts_at_create > 0 => jobHist[j].created_status = "completed"

\* C4 as amended: creation deducts exactly the allocations of a job created as
\* completed and nothing for a job created as failed or cancelled; an update
\* deducts only when it replaces the allocation list and the job is then completed,
\* or when it raises the legacy amount of a completed legacy job; an update that
\* sets neither the list nor the legacy amount leaves every spool unchanged.
C4_DeductionPoints ==
    /\ \A j \in JobIds :
          jobHist[j].deducts_at_create > 0 => jobHist[j].created_status = "completed"
    /\ Created =>
          last.deducts = (IF jobs[last.id].status = "completed"
                          THEN Len(Allocations(jobs[last.id])) ELSE 0)
    /\ (last.op = "update_print_job" /\ last.deducts > 0) =>
          \/ last.spools_set /\ jobs[last.id].status = "completed"
          \/ /\ ~last.spools_set /\ last.amount_set
             /\ last.job_before.status = "completed"
             /\ last.job_before.print_job_spools = <<>>
             /\ jobs[last.id].filament_used_g > last.job_before.filament_used_g
    /\ (Updated /\ ~last.spools_set /\ ~last.amount_set) => spools = last.stock_before

C4_Witness ==
    /\ Updated /\ last.deducts > 0
    /\ jobHist[last.id].created_status = "failed"
    /\ jobHist[last.id].deducts_at_create = 0
    /\ \E s \in SpoolIds : spools[s] < last.stock_before[s]

\* C5: an update that replaces the allocation list of a completed job that stays
\* completed restores the old amounts, validates the new list against the
\* restored stock and deducts the new amounts through the clamp rule; on a
\* shortage the stock and the job are as they were before the request.
C5_ReplaceIsAtomicSwap ==
    LET old == last.job_before
        restored(s) == last.stock_before[s] + SumOn(Allocations(old), s)
        new == jobs[last.id].print_job_spools
    IN (/\ last.op = "update_print_job" /\ last.spools_set
        /\ old.status = "completed"
        /\ last.status \in {"none", "completed"})
       =>
       /\ last.code = 200 =>
             /\ jobs[last.id].status = "completed"
             /\ \A s \in SpoolIds : spools[s] = ClampRule(restored(s), SumOn(new, s))
             /\ (~last.force /\ prevent_of(settings)) =>
                   \A i \in 1..Len(new) :
                       restored(new[i].spool_id) - reserve_of(settings)
                           - new[i].filament_used_g >= 0
       /\ last.code # 200 =>
             /\ spools = last.stock_before
             /\ jobs[last.id] = old
       /\ last.code = 422 => ~last.force /\ prevent_of(settings)

C5_Witness ==
    /\ Updated /\ last.spools_set /\ ~last.force
    /\ last.job_before.status = "completed" /\ jobs[last.id].status = "completed"
    /\ prevent_of(settings)
    /\ \E i \in 1..Len(jobs[last.id].print_job_spools) :
          LET e == jobs[last.id].print_job_spools[i]
          IN last.stock_before[e.spool_id] - reserve_of(settings) - e.filament_used_g < 0

C5_ShortageReached ==
    /\ last.op = "update_print_job" /\ last.spools_set /\ Shortage
    /\ last.job_before.status = "completed"
    /\ Allocations(last.job_before) # <<>>

-----------------------------------------------------------------------------
(* orders.py: hardware stock of orders.  The outcome of an order handler   *)
(* carries, beside the session's rows, whether update_order got as far as  *)
(* the status logic and which of its two passes it entered.                *)

OrderOutcome(code, committed, sp, hw, ords, reached, deduct_pass, restore_pass) ==
    [code |-> code, committed |-> committed, spools |-> sp, hardware |-> hw,
     orders |-> ords,
     reached |-> reached, deduct_pass |-> deduct_pass, restore_pass |-> restore_pass]

OrderRejected(code, sp, hw, ords) ==
    OrderOutcome(code, FALSE, sp, hw, ords, FALSE, FALSE, FALSE)

\* mutation: a restored line gives back one piece, whatever its quantity
RECURSIVE RestoreLinesOneEach(_, _)
RestoreLinesOneEach(hw, lines) ==
    IF lines = <<>> THEN hw
    ELSE LET oh == Head(lines)
         IN RestoreLinesOneEach(
                IF ~oh.is_one_off /\ oh.hardware_item_id \in DOMAIN hw
                THEN [hw EXCEPT ![oh.hardware_item_id] = @ + 1]
                ELSE hw,
                Tail(lines))

\* hardware_item.quantity_in_stock += oh.quantity for every tracked line
RECURSIVE RestoreLines(_, _)
RestoreLines(hw, lines) ==
    IF lines = <<>> THEN hw
    ELSE LET oh == Head(lines)
         IN RestoreLines(
                IF ~oh.is_one_off /\ oh.hardware_item_id \in DOMAIN hw
                THEN [hw EXCEPT ![oh.hardware_item_id] = @ + oh.quantity]
                ELSE hw,
                Tail(lines))

\* the deduction pass: line by line, the stock is checked and then lowered;
\* the first line the stock cannot cover raises 400
RECURSIVE DeductLines(_, _)
DeductLines(hw, lines) ==
    IF lines = <<>> THEN [ok |-> TRUE, hardware |-> hw]
    ELSE LET oh == Head(lines)
         IN IF oh.is_one_off \/ oh.hardware_item_id \notin DOMAIN hw
            THEN DeductLines(hw, Tail(lines))
            ELSE IF hw[oh.hardware_item_id] < oh.quantity
            THEN [ok |-> FALSE, hardware |-> hw]
            ELSE DeductLines([hw EXCEPT ![oh.hardware_item_id] = @ - oh.quantity],
                             Tail(lines))

\* every inventory line names a hardware item that exists
AllHardwareExists(hw, items) ==
    \A i \in 1..Len(items) :
        items[i].is_one_off \/ items[i].hardware_item_id \in DOMAIN hw

\* every allocation of the list names a spool that exists
AllOrderSpoolsExist(sp, entries) ==
    \A i \in 1..Len(entries) : entries[i].spool_id \in DOMAIN sp

\* the grams the allocations of a list take of spool s
RECURSIVE OrderGramsOn(_, _)
OrderGramsOn(entries, s) ==
    IF entries = <<>> THEN 0
    ELSE (IF Head(entries).spool_id = s THEN Head(entries).filament_grams ELSE 0)
         + OrderGramsOn(Tail(entries), s)

\* mutation: the loop over the allocations takes the grams from the spools
add_order_spools_deducting(sp, cat, entries) ==
    [spools |-> [s \in DOMAIN sp |-> Max(0, sp[s] - OrderGramsOn(entries, s))],
     rows |-> [i \in 1..Len(entries) |->
                  [entries[i] EXCEPT !.cost_per_kg_snapshot =
                                        cost_per_kg(cat.spools[entries[i].spool_id])]]]

\* the loop over the allocations of a request: every spool is read for its
\* price and capacity, the snapshot is taken, the row is added; no spool is
\* written
add_order_spools(sp, cat, entries) ==
    [spools |-> sp,
     rows |-> [i \in 1..Len(entries) |->
                  [entries[i] EXCEPT !.cost_per_kg_snapshot =
                                        cost_per_kg(cat.spools[entries[i].spool_id])]]]

\* the loop over the hardware lines of a request: unit_cost_snapshot is the
\* one_off_cost of a one-off line and the cost_per_item of a tracked one
add_order_hardware(cat, items) ==
    [i \in 1..Len(items) |->
        [items[i] EXCEPT !.unit_cost_snapshot =
            IF items[i].is_one_off THEN items[i].one_off_cost * FourDecimals
            ELSE cost_per_item(cat.hardware[items[i].hardware_item_id])]]

create_order(sp, hw, cat, projs, ords, id, data) ==
    IF /\ data.project_id # 0
       /\ (data.project_id \notin DOMAIN projs \/ ~projs[data.project_id].exists)
    THEN OrderRejected(400, sp, hw, ords)
    ELSE IF data.spool_id # 0 /\ data.spool_id \notin DOMAIN sp
    THEN OrderRejected(400, sp, hw, ords)
    ELSE IF ~UniquePositions(data.spools)
    THEN OrderRejected(400, sp, hw, ords)
    ELSE IF ~AllOrderSpoolsExist(sp, data.spools)
    THEN OrderRejected(400, sp, hw, ords)
    ELSE IF ~AllHardwareExists(hw, data.hardware_items)
    THEN OrderRejected(400, sp, hw, ords)
    \* hardware stock is not decremented on creation, whatever the status
    ELSE LET added == add_order_spools(sp, cat, data.spools)
         IN OrderOutcome(201, TRUE, added.spools, hw,
                [ords EXCEPT ![id] =
                    [Order(data.status, data.project_id, data.spool_id,
                           OrderByPosition(added.rows),
                           add_order_hardware(cat, data.hardware_items))
                     EXCEPT !.filament_grams_snapshot =
                                IF data.project_id # 0
                                THEN projs[data.project_id].filament_grams ELSE 0]],
                FALSE, FALSE, FALSE)

\* mutation: the deduction pass only on a change of status
needs_deduct_on_change_only(old_status, new_status, hardware_items_update) ==
    new_status = "finished" /\ old_status # "finished"

needs_deduct(old_status, new_status, hardware_items_update) ==
    new_status = "finished" /\ (old_status # "finished" \/ hardware_items_update)

\* needs_restore without the test for a list in the request
needs_restore_with_list(old_status, new_status, hardware_items_update) ==
    old_status = "finished" /\ new_status # "finished"

needs_restore(old_status, new_status, hardware_items_update) ==
    old_status = "finished" /\ new_status # "finished" /\ ~hardware_items_update

update_order(sp, hw, cat, projs, ords, id, data) ==
    IF id \notin DOMAIN ords \/ ~ords[id].exists THEN OrderRejected(404, sp, hw, ords)
    ELSE IF /\ data.project_id.set /\ data.project_id.value # 0
            /\ (\/ data.project_id.value \notin DOMAIN projs
                \/ ~projs[data.project_id.value].exists)
    THEN OrderRejected(400, sp, hw, ords)
    ELSE IF data.spool_id.set /\ data.spool_id.value # 0
            /\ data.spool_id.value \notin DOMAIN sp
    THEN OrderRejected(400, sp, hw, ords)
    ELSE IF data.spools.set /\ ~UniquePositions(data.spools.value)
    THEN OrderRejected(400, sp, hw, ords)
    ELSE IF data.spools.set /\ ~AllOrderSpoolsExist(sp, data.spools.value)
    THEN OrderRejected(400, sp, hw, ords)
    ELSE
    LET order == ords[id]
        old_status == order.status
        new_status == IF data.status.set THEN data.status.value ELSE old_status
        hardware_items_update == data.hardware_items.set
        \* the old order_spools rows are deleted and the list is added anew
        added == IF data.spools.set THEN add_order_spools(sp, cat, data.spools.value)
                 ELSE [spools |-> sp, rows |-> order.order_spools]
        sp1 == added.spools
        \* the replacement block: restore the old lines of a finished order
        hw1 == IF hardware_items_update /\ old_status = "finished"
               THEN RestoreLines(hw, order.order_hardware) ELSE hw
        lines == IF hardware_items_update
                 THEN add_order_hardware(cat, data.hardware_items.value)
                 ELSE order.order_hardware
        updated ==
            [ords EXCEPT ![id] =
                [Order(new_status,
                       IF data.project_id.set THEN data.project_id.value
                       ELSE order.project_id,
                       IF data.spool_id.set THEN data.spool_id.value
                       ELSE order.spool_id,
                       IF data.spools.set THEN OrderByPosition(added.rows)
                       ELSE order.order_spools,
                       lines)
                 \* re-snapshot when project_id is in the request
                 EXCEPT !.filament_grams_snapshot =
                            IF ~data.project_id.set THEN order.filament_grams_snapshot
                            ELSE IF data.project_id.value # 0
                            THEN projs[data.project_id.value].filament_grams
                            ELSE 0]]
        deduct == needs_deduct(old_status, new_status, hardware_items_update)
        restore == needs_restore(old_status, new_status, hardware_items_update)
        deducted == DeductLines(hw1, lines)
    IN  IF hardware_items_update /\ ~AllHardwareExists(hw, data.hardware_items.value)
        THEN OrderRejected(400, sp1, hw1, ords)
        ELSE IF deduct
        THEN IF deducted.ok
             THEN OrderOutcome(200, TRUE, sp1, deducted.hardware, updated,
                               TRUE, TRUE, FALSE)
             ELSE OrderOutcome(400, FALSE, sp1, deducted.hardware, updated,
                               TRUE, TRUE, FALSE)
        ELSE IF restore
        THEN OrderOutcome(200, TRUE, sp1, RestoreLines(hw1, lines), updated,
                          TRUE, FALSE, TRUE)
        ELSE OrderOutcome(200, TRUE, sp1, hw1, updated, TRUE, FALSE, FALSE)

\* (the spools rows are not read)
delete_order(sp, hw, ords, id) ==
    IF id \notin DOMAIN ords \/ ~ords[id].exists THEN OrderRejected(404, sp, hw, ords)
    ELSE OrderOutcome(204, TRUE, sp,
                      IF ords[id].status = "finished"
                      THEN RestoreLines(hw, ords[id].order_hardware) ELSE hw,
                      [ords EXCEPT ![id] = NoOrder], FALSE, FALSE, FALSE)

(* orders.py: create_print_job_from_order *)

\* spool_usages = [(os.spool_id, os.filament_grams) for os in order.order_spools]
OrderSpoolUsages(order_spools) ==
    [i \in 1..Len(order_spools) |->
        Usage(order_spools[i].spool_id, order_spools[i].filament_grams)]

\* PrintJobSpool(spool_id=os.spool_id, filament_used_g=os.filament_grams,
\*               position=os.position) for every order spool
JobSpoolsOfOrder(order_spools) ==
    [i \in 1..Len(order_spools) |->
        PrintJobSpool(order_spools[i].spool_id, order_spools[i].filament_grams,
                      order_spools[i].position)]

\* if spool and os.filament_grams > 0: _deduct_spool(spool, os.filament_grams, prevent)
RECURSIVE DeductOrderSpools(_, _, _)
DeductOrderSpools(sp, order_spools, prevent) ==
    IF order_spools = <<>> THEN sp
    ELSE LET os == Head(order_spools)
         IN DeductOrderSpools(
                IF os.spool_id \in DOMAIN sp /\ os.filament_grams > 0
                THEN [sp EXCEPT ![os.spool_id] =
                          _deduct_spool(@, os.filament_grams, prevent)]
                ELSE sp,
                Tail(order_spools), prevent)

\* mutation: force is not looked at, the inventory is always validated
create_print_job_from_order_unforced(sp, st, jb, projs, ords, job_id, order_id, force) ==
    IF order_id \notin DOMAIN ords \/ ~ords[order_id].exists THEN Rejected(404, sp, jb)
    ELSE
    LET order == ords[order_id]
    IN  IF order.project_id = 0 THEN Rejected(400, sp, jb)
        ELSE IF order.project_id \notin DOMAIN projs \/ ~projs[order.project_id].exists
        THEN Rejected(400, sp, jb)
        ELSE IF order.order_spools # <<>>
        THEN LET validation ==
                     validate_spool_inventory(sp, st, OrderSpoolUsages(order.order_spools))
             IN IF ~validation.is_valid
                THEN ShortageRejected(sp, jb, validation)
                ELSE Outcome(200, TRUE,
                         DeductOrderSpools(sp, order.order_spools, prevent_of(st)),
                         [jb EXCEPT ![job_id] =
                              PrintJob("completed", 0, 0,
                                       JobSpoolsOfOrder(order.order_spools), order_id)],
                         Len(order.order_spools))
        ELSE IF order.spool_id # 0
        THEN LET filament_grams == projs[order.project_id].filament_grams
                 validation ==
                     validate_spool_inventory(
                         sp, st, <<Usage(order.spool_id, filament_grams)>>)
             IN IF filament_grams > 0 /\ ~validation.is_valid
                THEN ShortageRejected(sp, jb, validation)
                ELSE Outcome(200, TRUE,
                         IF order.spool_id \in DOMAIN sp /\ filament_grams > 0
                         THEN [sp EXCEPT ![order.spool_id] =
                                   _deduct_spool(@, filament_grams, prevent_of(st))]
                         ELSE sp,
                         [jb EXCEPT ![job_id] =
                              PrintJob("completed", order.spool_id, filament_grams,
                                       <<>>, order_id)],
                         IF filament_grams > 0 THEN 1 ELSE 0)
        ELSE Rejected(400, sp, jb)

\* mutation: the legacy path takes the grams of the print job it creates to be 0
create_print_job_from_order_no_template(sp, st, jb, projs, ords, job_id, order_id, force) ==
    IF order_id \notin DOMAIN ords \/ ~ords[order_id].exists THEN Rejected(404, sp, jb)
    ELSE
    LET order == ords[order_id]
    IN  IF order.project_id = 0 THEN Rejected(400, sp, jb)
        ELSE IF order.project_id \notin DOMAIN projs \/ ~projs[order.project_id].exists
        THEN Rejected(400, sp, jb)
        ELSE IF order.order_spools # <<>>
        THEN LET validation ==
                     validate_spool_inventory(sp, st, OrderSpoolUsages(order.order_spools))
             IN IF ~force /\ ~validation.is_valid
                THEN ShortageRejected(sp, jb, validation)
                ELSE Outcome(200, TRUE,
                         DeductOrderSpools(sp, order.order_spools, prevent_of(st)),
                         [jb EXCEPT ![job_id] =
                              PrintJob("completed", 0, 0,
                                       JobSpoolsOfOrder(order.order_spools), order_id)],
                         Len(order.order_spools))
        ELSE IF order.spool_id # 0
        THEN Outcome(200, TRUE, sp,
                     [jb EXCEPT ![job_id] =
                          PrintJob("completed", order.spool_id, 0, <<>>, order_id)], 0)
        ELSE Rejected(400, sp, jb)

\* mutation: an order that has a print job is not given another
create_print_job_from_order_once(sp, st, jb, projs, ords, job_id, order_id, force) ==
    IF order_id \notin DOMAIN ords \/ ~ords[order_id].exists THEN Rejected(404, sp, jb)
    ELSE IF \E j \in DOMAIN jb : jb[j].exists /\ jb[j].order_id = order_id
    THEN Rejected(409, sp, jb)
    ELSE
    LET order == ords[order_id]
    IN  IF order.project_id = 0 THEN Rejected(400, sp, jb)
        ELSE IF order.project_id \notin DOMAIN projs \/ ~projs[order.project_id].exists
        THEN Rejected(400, sp, jb)
        ELSE IF order.order_spools # <<>>
        THEN LET validation ==
                     validate_spool_inventory(sp, st, OrderSpoolUsages(order.order_spools))
             IN IF ~force /\ ~validation.is_valid
                THEN ShortageRejected(sp, jb, validation)
                ELSE Outcome(200, TRUE,
                         DeductOrderSpools(sp, order.order_spools, prevent_of(st)),
                         [jb EXCEPT ![job_id] =
                              PrintJob("completed", 0, 0,
                                       JobSpoolsOfOrder(order.order_spools), order_id)],
                         Len(order.order_spools))
        ELSE IF order.spool_id # 0
        THEN LET filament_grams == projs[order.project_id].filament_grams
                 validation ==
                     validate_spool_inventory(
                         sp, st, <<Usage(order.spool_id, filament_grams)>>)
             IN IF filament_grams > 0 /\ ~force /\ ~validation.is_valid
                THEN ShortageRejected(sp, jb, validation)
                ELSE Outcome(200, TRUE,
                         IF order.spool_id \in DOMAIN sp /\ filament_grams > 0
                         THEN [sp EXCEPT ![order.spool_id] =
                                   _deduct_spool(@, filament_grams, prevent_of(st))]
                         ELSE sp,
                         [jb EXCEPT ![job_id] =
                              PrintJob("completed", order.spool_id, filament_grams,
                                       <<>>, order_id)],
                         IF filament_grams > 0 THEN 1 ELSE 0)
        ELSE Rejected(400, sp, jb)

\* job_id is the id the flush assigns to the new print job
create_print_job_from_order(sp, st, jb, projs, ords, job_id, order_id, force) ==
    IF order_id \notin DOMAIN ords \/ ~ords[order_id].exists THEN Rejected(404, sp, jb)
    ELSE
    LET order == ords[order_id]
    IN  IF order.project_id = 0 THEN Rejected(400, sp, jb)
        ELSE IF order.project_id \notin DOMAIN projs \/ ~projs[order.project_id].exists
        THEN Rejected(400, sp, jb)
        \* the multi-colour path: the order has order_spools rows
        ELSE IF order.order_spools # <<>>
        THEN LET validation ==
                     validate_spool_inventory(sp, st, OrderSpoolUsages(order.order_spools))
             IN IF ~force /\ ~validation.is_valid
                THEN ShortageRejected(sp, jb, validation)
                ELSE Outcome(200, TRUE,
                         DeductOrderSpools(sp, order.order_spools, prevent_of(st)),
                         [jb EXCEPT ![job_id] =
                              PrintJob("completed", 0, 0,
                                       JobSpoolsOfOrder(order.order_spools), order_id)],
                         Len(order.order_spools))
        \* the legacy path: filament_grams = project.filament_grams or 0.0
        ELSE IF order.spool_id # 0
        THEN LET filament_grams == projs[order.project_id].filament_grams
                 validation ==
                     validate_spool_inventory(
                         sp, st, <<Usage(order.spool_id, filament_grams)>>)
             IN IF filament_grams > 0 /\ ~force /\ ~validation.is_valid
                THEN ShortageRejected(sp, jb, validation)
                ELSE Outcome(200, TRUE,
                         IF order.spool_id \in DOMAIN sp /\ filament_grams > 0
                         THEN [sp EXCEPT ![order.spool_id] =
                                   _deduct_spool(@, filament_grams, prevent_of(st))]
                         ELSE sp,
                         [jb EXCEPT ![job_id] =
                              PrintJob("completed", order.spool_id, filament_grams,
                                       <<>>, order_id)],
                         IF filament_grams > 0 THEN 1 ELSE 0)
        ELSE Rejected(400, sp, jb)

-----------------------------------------------------------------------------
(* Order requests the model serves *)

\* hardware lists: none, one line of each kind, and two-line lists that name
\* one item twice, mix a one-off line with a tracked one, and name two items
HardwareLists ==
    {<<>>,
     <<OrderHardware(1, 1, FALSE)>>,
     <<OrderHardware(1, MaxQty, FALSE)>>,
     <<OrderHardware(0, MaxQty, TRUE)>>,
     <<OrderHardware(1, 1, FALSE), OrderHardware(1, MaxQty, FALSE)>>,
     <<OrderHardware(0, MaxQty, TRUE), OrderHardware(NumHardware, 1, FALSE)>>,
     <<OrderHardware(1, MaxQty, FALSE), OrderHardware(NumHardware, 1, FALSE)>>}

MissingHardwareList == <<OrderHardware(MissingHardware, 1, FALSE)>>

OrderCreate(status, project_id, spool_id, spool_list, hardware_items) ==
    [status |-> status, project_id |-> project_id, spool_id |-> spool_id,
     spools |-> spool_list, hardware_items |-> hardware_items]

\* spool allocations of an order: one, two out of order, and the two lists a
\* request is refused for
OrderSpoolLists ==
    {<<OrderSpool(1, 1, 1)>>,
     <<OrderSpool(NumSpools, MaxGrams, 2), OrderSpool(1, 1, 1)>>}

DuplicateOrderPositions == <<OrderSpool(1, 1, 1), OrderSpool(1, 1, 1)>>
MissingOrderSpool == <<OrderSpool(MissingSpool, 1, 1)>>

OrderCreateInputs ==
    {OrderCreate(st, 0, 0, <<>>, hl) :
        st \in {"ordered", "finished"}, hl \in HardwareLists \cup {MissingHardwareList}}
    \cup {OrderCreate(st, 0, 0, <<>>, <<OrderHardware(1, 1, FALSE)>>) :
            st \in OrderStatuses}
    \cup {OrderCreate("finished", 0, MissingSpool, <<>>, <<>>),
          OrderCreate("finished", MissingProject, 0, <<>>, <<>>),
          OrderCreate("finished", 0, 0, DuplicateOrderPositions, <<>>),
          OrderCreate("finished", 0, 0, MissingOrderSpool, <<>>)}
    \cup {OrderCreate("finished", 0, 1, sl, <<OrderHardware(1, 1, FALSE)>>) :
            sl \in OrderSpoolLists}

OrderUpdate(status, project_id, spool_id, spool_list, hardware_items) ==
    [status |-> status, project_id |-> project_id, spool_id |-> spool_id,
     spools |-> spool_list, hardware_items |-> hardware_items]

NoHardwareItems == {[set |-> FALSE, value |-> <<>>]}

\* the statuses an update asks for
OrderUpdateStatuses == {"printed", "finished", "sold"}

OrderUpdateInputs ==
    {OrderUpdate(st, [set |-> FALSE, value |-> 0], sid, [set |-> FALSE, value |-> <<>>],
                 hl) :
        st \in NoStatus \cup Given(OrderUpdateStatuses),
        sid \in NoneSet,
        hl \in NoHardwareItems}
    \* a hardware list with no status, or with one of each side of finished
    \cup {OrderUpdate(st, [set |-> FALSE, value |-> 0], sid,
                      [set |-> FALSE, value |-> <<>>], hl) :
            st \in NoStatus \cup Given({"printed", "finished"}),
            sid \in NoneSet,
            hl \in Given(HardwareLists)}
    \cup {OrderUpdate([set |-> FALSE, value |-> "none"], [set |-> FALSE, value |-> 0],
                      sid, [set |-> FALSE, value |-> <<>>],
                      [set |-> TRUE, value |-> MissingHardwareList]) :
            sid \in NoneSet}
    \cup {OrderUpdate([set |-> TRUE, value |-> "finished"], [set |-> FALSE, value |-> 0],
                      sid, [set |-> FALSE, value |-> <<>>],
                      [set |-> FALSE, value |-> <<>>]) :
            sid \in Given({0, 1, MissingSpool})}
    \cup {OrderUpdate([set |-> TRUE, value |-> "finished"],
                      [set |-> TRUE, value |-> MissingProject],
                      [set |-> FALSE, value |-> 0], [set |-> FALSE, value |-> <<>>],
                      [set |-> FALSE, value |-> <<>>])}
    \cup {OrderUpdate([set |-> TRUE, value |-> "finished"], [set |-> FALSE, value |-> 0],
                      [set |-> FALSE, value |-> 0], [set |-> TRUE, value |-> sl],
                      [set |-> TRUE, value |-> <<OrderHardware(1, MaxQty, FALSE)>>]) :
            sl \in {<<OrderSpool(NumSpools, 1, 1)>>, DuplicateOrderPositions,
                    MissingOrderSpool}}

NoOrderUpdate ==
    OrderUpdate([set |-> FALSE, value |-> "none"], [set |-> FALSE, value |-> 0],
                [set |-> FALSE, value |-> 0], [set |-> FALSE, value |-> <<>>],
                [set |-> FALSE, value |-> <<>>])

\* the request, its answer, the rows it found and the statuses it went between
OrderRequest(op, r, id, old_status, new_status, hardware_set) ==
    [op |-> op, code |-> r.code, id |-> id,
     old_status |-> old_status, new_status |-> new_status,
     hardware_set |-> hardware_set,
     reached |-> r.reached, deduct_pass |-> r.deduct_pass,
     restore_pass |-> r.restore_pass,
     stock_before |-> hardware, spools_before |-> spools, duplicate |-> FALSE,
     pending_before |-> pending,
     order_before |-> IF id \in DOMAIN orders THEN orders[id] ELSE NoOrder]

\* some line of the list is a tracked line
HasTracked(lines) == \E i \in 1..Len(lines) : ~lines[i].is_one_off

InitialStock == {1, MaxStock}

InitOrd ==
    /\ spools = [s \in SpoolIds |-> DefaultReserve + MaxGrams + 1]
    /\ settings = NoSettings
    /\ jobs = [j \in JobIds |-> NoJob]
    /\ products = [p \in ProductIds |-> NoProduct]
    /\ hardware \in {q \in [HardwareIds -> InitialStock] :
                        /\ q[NumHardware] = MaxStock
                        /\ \A a, b \in HardwareIds : a <= b => q[a] <= q[b]}
    /\ orders = [o \in OrderIds |-> NoOrder]
    /\ projects = <<>>
    /\ nextId = [job |-> 1, order |-> 1, product |-> 1]
    /\ last = NoRequest
    /\ jobHist = [j \in JobIds |-> NoHist]
    /\ ordHist = [o \in OrderIds |-> NoOrdHist]
    /\ prodHist = [p \in ProductIds |-> NoProdHist]
    /\ catalog = PlainCatalog
    /\ pending = <<>>

\* what the order handlers never write
notOrders == <<settings, jobs, products, projects, jobHist, prodHist, catalog>>

\* the background task update_order adds for a change of status
StatusChangeTask(id, old_status, new_status) ==
    [task |-> "send_order_status_change_webhook", order_id |-> id,
     old_status |-> old_status, new_status |-> new_status]

\* the end of update_order with the task added whatever became of the commit
status_change_tasks_uncommitted(st, committed, id, old_status, new_status) ==
    IF /\ old_status # new_status
       /\ st.exists /\ st.webhook_enabled /\ st.webhook_url
       /\ "order_status_change" \in st.webhook_events
    THEN <<StatusChangeTask(id, old_status, new_status)>>
    ELSE <<>>

\* the end of update_order: the lines after the commit are reached when the
\* commit did not raise; a changed status adds one task when the settings row
\* has the webhook enabled, a url and the event among its events
status_change_tasks(st, committed, id, old_status, new_status) ==
    IF /\ committed
       /\ old_status # new_status
       /\ st.exists /\ st.webhook_enabled /\ st.webhook_url
       /\ "order_status_change" \in st.webhook_events
    THEN <<StatusChangeTask(id, old_status, new_status)>>
    ELSE <<>>

\* a committed request is a mutation for every order's history
TouchOrders(hist) ==
    [k \in DOMAIN hist |-> [hist[k] EXCEPT !.untouched = FALSE, !.round_trip = "none"]]

CreateOrderFrom(inputs) ==
    /\ nextId.order \in OrderIds
    /\ \E data \in inputs :
        LET id == nextId.order
            r == create_order(spools, hardware, catalog, projects, orders, id, data)
        IN /\ PositionsValid(data.spools)
           /\ hardware' = get_db(hardware, r.hardware, r.committed)
           /\ spools' = get_db(spools, r.spools, r.committed)
           /\ orders' = get_db(orders, r.orders, r.committed)
           /\ nextId' = IF r.committed THEN [nextId EXCEPT !.order = @ + 1] ELSE nextId
           /\ last' = [OrderRequest("create_order", r, id, "none", data.status,
                                    data.hardware_items # <<>>)
                        EXCEPT !.duplicate = ~DistinctPositions(data.spools)]
           /\ ordHist' =
                IF r.committed
                THEN [TouchOrders(ordHist) EXCEPT ![id] =
                         [created_status |-> data.status,
                          stock_before_create |-> hardware,
                          untouched |-> TRUE, deducted |-> FALSE,
                          round_trip |-> "none", restored_from |-> <<>>,
                          was_deducted |-> FALSE, updates |-> 0]]
                ELSE ordHist
    /\ UNCHANGED notOrders
    /\ UNCHANGED pending

CreateOrder == CreateOrderFrom(OrderCreateInputs)

UpdateOrderFrom(inputs) ==
    /\ \E id \in OrderIds, data \in inputs :
        /\ orders[id].exists
        /\ ordHist[id].updates < MaxOrderUpdates
        /\ PositionsValid(data.spools.value)
        /\ LET r == update_order(spools, hardware, catalog, projects, orders, id, data)
               old_status == orders[id].status
               new_status == IF data.status.set THEN data.status.value ELSE old_status
               plain == ~data.hardware_items.set
               h == ordHist[id]
               restores == plain /\ old_status = "finished" /\ new_status = "printed"
               rededucts == /\ plain /\ old_status = "printed" /\ new_status = "finished"
                            /\ h.round_trip = "restored"
               touched == IF r.committed THEN TouchOrders(ordHist) ELSE ordHist
           IN /\ hardware' = get_db(hardware, r.hardware, r.committed)
              /\ spools' = get_db(spools, r.spools, r.committed)
              /\ orders' = get_db(orders, r.orders, r.committed)
              /\ pending' = pending \o status_change_tasks(settings, r.committed, id,
                                                            old_status, new_status)
              /\ last' = [OrderRequest("update_order", r, id, old_status, new_status,
                                       data.hardware_items.set)
                           EXCEPT !.duplicate = /\ data.spools.set
                                                /\ ~DistinctPositions(data.spools.value)]
              /\ ordHist' =
                    IF ~r.committed
                    THEN [ordHist EXCEPT ![id].updates = @ + 1]
                    ELSE [touched EXCEPT ![id] =
                            [@ EXCEPT
                                !.updates = h.updates + 1,
                                !.deducted =
                                    IF r.deduct_pass
                                    THEN HasTracked(r.orders[id].order_hardware)
                                    ELSE IF r.restore_pass
                                            \/ (~plain /\ old_status = "finished")
                                    THEN FALSE ELSE h.deducted,
                                !.round_trip =
                                    IF restores THEN "restored"
                                    ELSE IF rededucts THEN "rededucted" ELSE "none",
                                !.restored_from =
                                    IF restores THEN hardware
                                    ELSE IF rededucts THEN h.restored_from ELSE <<>>,
                                !.was_deducted =
                                    IF r.restore_pass THEN h.deducted
                                    ELSE IF rededucts THEN h.was_deducted ELSE FALSE]]
    /\ UNCHANGED <<nextId>>
    /\ UNCHANGED notOrders

UpdateOrder == UpdateOrderFrom(OrderUpdateInputs)

DeleteOrder ==
    /\ \E id \in OrderIds :
        /\ orders[id].exists
        /\ LET r == delete_order(spools, hardware, orders, id)
           IN /\ hardware' = get_db(hardware, r.hardware, r.committed)
              /\ spools' = get_db(spools, r.spools, r.committed)
              /\ orders' = get_db(orders, r.orders, r.committed)
              /\ last' = OrderRequest("delete_order", r, id, orders[id].status, "none",
                                      FALSE)
              /\ ordHist' =
                    [k \in DOMAIN ordHist |->
                        IF k = id THEN [ordHist[k] EXCEPT !.round_trip = "none"]
                        ELSE [ordHist[k] EXCEPT !.untouched = FALSE,
                                                !.round_trip = "none"]]
    /\ UNCHANGED <<nextId>>
    /\ UNCHANGED notOrders
    /\ UNCHANGED pending

\* a request that names an order that does not exist
OrderNotFound ==
    /\ \E id \in OrderIds, op \in {"update_order", "delete_order"} :
        /\ ~orders[id].exists
        /\ LET r == IF op = "update_order"
                    THEN update_order(spools, hardware, catalog, projects, orders, id,
                                      NoOrderUpdate)
                    ELSE delete_order(spools, hardware, orders, id)
           IN /\ hardware' = get_db(hardware, r.hardware, r.committed)
              /\ spools' = get_db(spools, r.spools, r.committed)
              /\ orders' = get_db(orders, r.orders, r.committed)
              /\ last' = OrderRequest(op, r, id, "none", "none", FALSE)
    /\ UNCHANGED <<nextId, ordHist>>
    /\ UNCHANGED notOrders
    /\ UNCHANGED pending

NextOrd == CreateOrder \/ UpdateOrder \/ DeleteOrder \/ OrderNotFound

SpecOrd == InitOrd /\ [][NextOrd]_vars

-----------------------------------------------------------------------------
(* What the order claims speak of *)

\* the quantity the tracked lines of a list take of hardware item h
RECURSIVE TrackedOn(_, _)
TrackedOn(lines, h) ==
    IF lines = <<>> THEN 0
    ELSE (IF ~Head(lines).is_one_off /\ Head(lines).hardware_item_id = h
          THEN Head(lines).quantity ELSE 0)
         + TrackedOn(Tail(lines), h)

OrderCreated == last.op = "create_order" /\ last.code = 201
OrderUpdated == last.op = "update_order" /\ last.code = 200
OrderDeleted == last.op = "delete_order" /\ last.code = 204

\* C6: an update_order that reaches the status logic enters the deduction pass
\* exactly when the new status is finished and the old one was not or a hardware
\* list came with the update, enters the restore pass exactly when the order
\* leaves finished and no hardware list came, and never enters both; when it
\* commits, the stock is the stock before, plus the old tracked lines where a list
\* replaced those of a finished order, minus the order's tracked lines where the
\* deduction pass is due, plus them where the restore pass is due.
C6_PassesFollowStatus ==
    (last.op = "update_order" /\ last.reached) =>
        LET old == last.old_status
            new == last.new_status
            given == last.hardware_set
            deduct == new = "finished" /\ (old # "finished" \/ given)
            restore == old = "finished" /\ new # "finished" /\ ~given
        IN /\ last.deduct_pass <=> deduct
           /\ last.restore_pass <=> restore
           /\ ~(last.deduct_pass /\ last.restore_pass)
           /\ last.code = 200 =>
                \A h \in HardwareIds :
                    hardware[h] =
                        last.stock_before[h]
                        + (IF given /\ old = "finished"
                           THEN TrackedOn(last.order_before.order_hardware, h) ELSE 0)
                        - (IF deduct
                           THEN TrackedOn(orders[last.id].order_hardware, h) ELSE 0)
                        + (IF restore
                           THEN TrackedOn(orders[last.id].order_hardware, h) ELSE 0)

\* a finished order stays finished while its tracked lines are replaced by other
\* tracked lines: the deduction pass ran over the new ones
C6_Witness ==
    /\ OrderUpdated
    /\ last.old_status = "finished" /\ last.new_status = "finished"
    /\ last.hardware_set /\ last.deduct_pass /\ ~last.restore_pass
    /\ HasTracked(last.order_before.order_hardware)
    /\ HasTracked(orders[last.id].order_hardware)
    /\ orders[last.id].order_hardware # last.order_before.order_hardware
    /\ hardware # last.stock_before

\* an order leaves finished with no hardware list: the restore pass ran
C6_RestoreReached ==
    /\ OrderUpdated
    /\ last.restore_pass /\ ~last.deduct_pass
    /\ HasTracked(orders[last.id].order_hardware)
    /\ hardware # last.stock_before

\* C7: after create_order with status finished every hardware item's stock is
\* its stock before minus the quantities of the order's tracked lines on it.
C7_CreateFinishedDeducts ==
    (OrderCreated /\ last.new_status = "finished") =>
        \A h \in HardwareIds :
            hardware[h] = last.stock_before[h]
                          - TrackedOn(orders[last.id].order_hardware, h)

\* what create_order does: it leaves the stock alone, whatever the status
C7_CreateLeavesStock == OrderCreated => hardware = last.stock_before

\* an order created as finished with a tracked line
C7_Reached ==
    /\ OrderCreated /\ last.new_status = "finished"
    /\ HasTracked(orders[last.id].order_hardware)

\* C8: an order created as finished and deleted with no mutation in between
\* leaves every hardware item's stock as it was before the creation; and a
\* committed order request whose lines, before and after, are all one-off
\* leaves the stock alone.
C8_CreateDeleteRoundTrip ==
    /\ (/\ OrderDeleted
        /\ ordHist[last.id].created_status = "finished"
        /\ ordHist[last.id].untouched)
       => hardware = ordHist[last.id].stock_before_create
    /\ (/\ OrderCreated \/ OrderUpdated \/ OrderDeleted
        /\ ~HasTracked(last.order_before.order_hardware)
        /\ ~HasTracked(orders[last.id].order_hardware))
       => hardware = last.stock_before

\* the round trip on an order with a tracked line
C8_Reached ==
    /\ OrderDeleted
    /\ ordHist[last.id].created_status = "finished"
    /\ ordHist[last.id].untouched
    /\ HasTracked(last.order_before.order_hardware)

\* C9: a finished order updated to printed and then back to finished, no hardware
\* list in either update and nothing committed in between, has every hardware
\* item's stock where it was before the two updates; the second update is never
\* refused for lack of stock.
C9_StatusRoundTrip ==
    \A o \in OrderIds :
        /\ ordHist[o].round_trip = "rededucted" => hardware = ordHist[o].restored_from
        /\ (/\ ordHist[o].round_trip = "restored"
            /\ last.op = "update_order" /\ last.id = o /\ last.reached
            /\ last.old_status = "printed" /\ last.new_status = "finished"
            /\ ~last.hardware_set)
           => FALSE

\* the round trip on an order whose tracked lines had been deducted
C9_Witness ==
    \E o \in OrderIds :
        /\ ordHist[o].round_trip = "rededucted"
        /\ ordHist[o].was_deducted
        /\ OrderUpdated /\ last.id = o /\ last.deduct_pass
        /\ HasTracked(orders[o].order_hardware)
        /\ hardware # last.stock_before

-----------------------------------------------------------------------------
(* product_on_hand.py: products on hand and the hardware of their project  *)

ProductOutcome(code, committed, hw, prods) ==
    [code |-> code, committed |-> committed, hardware |-> hw, products |-> prods]

ProductRejected(code, hw, prods) == ProductOutcome(code, FALSE, hw, prods)

\* has_hardware = project.hardware and len(project.hardware) > 0
has_hardware(projs, project_id) ==
    project_id # 0 /\ projs[project_id].hardware # <<>>

create_product_on_hand(hw, jb, projs, prods, id, data) ==
    IF data.print_job_id \notin DOMAIN jb \/ ~jb[data.print_job_id].exists
    THEN ProductRejected(404, hw, prods)
    ELSE IF jb[data.print_job_id].status # "completed"
    THEN ProductRejected(400, hw, prods)
    ELSE IF /\ data.project_id # 0
            /\ (data.project_id \notin DOMAIN projs \/ ~projs[data.project_id].exists)
    THEN ProductRejected(404, hw, prods)
    ELSE IF data.status = "completed" /\ ~data.location
    THEN ProductRejected(400, hw, prods)
    ELSE IF ~has_hardware(projs, data.project_id) /\ data.status # "completed"
    THEN ProductRejected(400, hw, prods)
    ELSE IF ~has_hardware(projs, data.project_id) /\ ~data.location
    THEN ProductRejected(400, hw, prods)
    \* the row is added; no hardware is touched
    ELSE ProductOutcome(200, TRUE, hw,
             [prods EXCEPT ![id] = ProductOnHand(data.project_id, data.print_job_id,
                                                 data.status, data.location)])

\* mutation: only the first line of the project is checked
StockCoversFirstLine(hw, lines) ==
    lines = <<>> \/ ~(hw[lines[1].hardware_item_id] < lines[1].quantity)

\* every line of the project is covered by the stock as it stands
StockCovers(hw, lines) ==
    \A i \in 1..Len(lines) : ~(hw[lines[i].hardware_item_id] < lines[i].quantity)

\* ph.hardware_item.quantity_in_stock -= ph.quantity for every line
RECURSIVE DeductProject(_, _)
DeductProject(hw, lines) ==
    IF lines = <<>> THEN hw
    ELSE DeductProject([hw EXCEPT ![Head(lines).hardware_item_id] =
                                        @ - Head(lines).quantity],
                       Tail(lines))

was_printed(product) == product.status = "printed"

update_product_on_hand(hw, projs, prods, id, data) ==
    IF id \notin DOMAIN prods \/ ~prods[id].exists THEN ProductRejected(404, hw, prods)
    ELSE
    LET product == prods[id]
        will_be_completed == IF data.status.set THEN data.status.value = "completed"
                             ELSE product.status = "completed"
        lines == IF /\ product.project_id \in DOMAIN projs
                    /\ projs[product.project_id].exists
                 THEN projs[product.project_id].hardware ELSE <<>>
        deducts == /\ was_printed(product) /\ will_be_completed
                   /\ product.project_id # 0 /\ lines # <<>>
        updated == [prods EXCEPT ![id] =
                        [@ EXCEPT !.status = IF data.status.set THEN data.status.value
                                             ELSE @,
                                  !.location = IF data.location.set
                                               THEN data.location.value ELSE @]]
    IN  IF deducts /\ ~StockCovers(hw, lines) THEN ProductRejected(400, hw, prods)
        ELSE ProductOutcome(200, TRUE,
                            IF deducts THEN DeductProject(hw, lines) ELSE hw, updated)

delete_product_on_hand(hw, prods, id) ==
    IF id \notin DOMAIN prods \/ ~prods[id].exists THEN ProductRejected(404, hw, prods)
    ELSE ProductOutcome(204, TRUE, hw, [prods EXCEPT ![id] = NoProduct])

ConvertOutcome(code, committed, hw, jb, ords, prods) ==
    [code |-> code, committed |-> committed, hardware |-> hw, jobs |-> jb,
     orders |-> ords, products |-> prods]

ConvertRejected(code, hw, jb, ords, prods) ==
    ConvertOutcome(code, FALSE, hw, jb, ords, prods)

\* OrderHardware(order=order, hardware_item_id=ph.hardware_item_id,
\*               quantity=ph.quantity,
\*               unit_cost_snapshot=ph.hardware_item.cost_per_item)
\* for every line of the project
SnapshotLines(cat, lines) ==
    [i \in 1..Len(lines) |->
        [OrderHardware(lines[i].hardware_item_id, lines[i].quantity, FALSE)
         EXCEPT !.unit_cost_snapshot =
                    cost_per_item(cat.hardware[lines[i].hardware_item_id])]]

\* mutation: the stock is deducted whatever the status of the product
convert_to_order_always_deducts(hw, cat, jb, projs, ords, prods, id, order_id) ==
    IF id \notin DOMAIN prods \/ ~prods[id].exists
    THEN ConvertRejected(404, hw, jb, ords, prods)
    ELSE
    LET product == prods[id]
        lines == IF /\ product.project_id \in DOMAIN projs
                    /\ projs[product.project_id].exists
                 THEN projs[product.project_id].hardware ELSE <<>>
    IN  IF product.print_job_id \notin DOMAIN jb \/ ~jb[product.print_job_id].exists
        THEN ConvertRejected(400, hw, jb, ords, prods)
        ELSE IF jb[product.print_job_id].order_id # 0
        THEN ConvertRejected(409, hw, jb, ords, prods)
        ELSE IF ~StockCovers(hw, lines)
        THEN ConvertRejected(400, hw, jb, ords, prods)
        ELSE ConvertOutcome(200, TRUE, DeductProject(hw, lines),
                 [jb EXCEPT ![product.print_job_id].order_id = order_id],
                 [ords EXCEPT ![order_id] =
                     Order("sold", product.project_id,
                           jb[product.print_job_id].spool_id, <<>>,
                           SnapshotLines(cat, lines))],
                 [prods EXCEPT ![id] = NoProduct])

\* mutation: the conversion does not look at the order of the print job
convert_to_order_unguarded(hw, cat, jb, projs, ords, prods, id, order_id) ==
    IF id \notin DOMAIN prods \/ ~prods[id].exists
    THEN ConvertRejected(404, hw, jb, ords, prods)
    ELSE
    LET product == prods[id]
        lines == IF /\ product.project_id \in DOMAIN projs
                    /\ projs[product.project_id].exists
                 THEN projs[product.project_id].hardware ELSE <<>>
        deducts == product.status # "completed"
    IN  IF product.print_job_id \notin DOMAIN jb \/ ~jb[product.print_job_id].exists
        THEN ConvertRejected(400, hw, jb, ords, prods)
        ELSE IF deducts /\ ~StockCovers(hw, lines)
        THEN ConvertRejected(400, hw, jb, ords, prods)
        ELSE ConvertOutcome(200, TRUE,
                 IF deducts THEN DeductProject(hw, lines) ELSE hw,
                 [jb EXCEPT ![product.print_job_id].order_id = order_id],
                 [ords EXCEPT ![order_id] =
                     Order("sold", product.project_id,
                           jb[product.print_job_id].spool_id, <<>>,
                           SnapshotLines(cat, lines))],
                 [prods EXCEPT ![id] = NoProduct])

\* order_id is the id the flush assigns to the new order
convert_to_order(hw, cat, jb, projs, ords, prods, id, order_id) ==
    IF id \notin DOMAIN prods \/ ~prods[id].exists
    THEN ConvertRejected(404, hw, jb, ords, prods)
    ELSE
    LET product == prods[id]
        lines == IF /\ product.project_id \in DOMAIN projs
                    /\ projs[product.project_id].exists
                 THEN projs[product.project_id].hardware ELSE <<>>
        deducts == product.status # "completed"
    IN  IF product.print_job_id \notin DOMAIN jb \/ ~jb[product.print_job_id].exists
        THEN ConvertRejected(400, hw, jb, ords, prods)
        ELSE IF jb[product.print_job_id].order_id # 0
        THEN ConvertRejected(409, hw, jb, ords, prods)
        ELSE IF deducts /\ ~StockCovers(hw, lines)
        THEN ConvertRejected(400, hw, jb, ords, prods)
        ELSE ConvertOutcome(200, TRUE,
                 IF deducts THEN DeductProject(hw, lines) ELSE hw,
                 [jb EXCEPT ![product.print_job_id].order_id = order_id],
                 [ords EXCEPT ![order_id] =
                     Order("sold", product.project_id,
                           jb[product.print_job_id].spool_id, <<>>,
                           SnapshotLines(cat, lines))],
                 [prods EXCEPT ![id] = NoProduct])

-----------------------------------------------------------------------------
(* Product requests the model serves *)

\* the hardware a project lists: create_project takes any list of existing
\* items, one item on several lines included
ProjectHardwareLists ==
    {<<ProjectHardware(1, 1)>>,
     <<ProjectHardware(1, MaxQty)>>,
     <<ProjectHardware(1, 1), ProjectHardware(1, MaxQty)>>,
     <<ProjectHardware(1, MaxQty), ProjectHardware(NumHardware, 1)>>}

\* the first project lists hardware, the others list none
InitialProjects ==
    {[p \in ProjectIds |-> Project(IF p = 1 THEN hl ELSE <<>>, 0)] :
        hl \in ProjectHardwareLists}

\* the print jobs products are made from: a completed one or a failed one
ProductJobInputs ==
    [spool_id : {1}, filament_used_g : {1}, spools : {<<>>},
     status : {"completed", "failed"}, force : {TRUE}]
    \cup [spool_id : {0}, filament_used_g : {0}, spools : {<<PrintJobSpool(1, 1, 1)>>},
          status : {"completed"}, force : {TRUE}]

ProductOnHandCreateInputs ==
    [project_id : {0} \cup ProjectIds \cup {MissingProject},
     print_job_id : JobIds \cup {MissingJob},
     status : ProductStatuses, location : BOOLEAN]

NoLocation == {[set |-> FALSE, value |-> FALSE]}

ProductOnHandUpdateInputs ==
    [status : NoStatus \cup Given(ProductStatuses),
     location : NoLocation \cup Given({TRUE})]

NoProductUpdate ==
    [status |-> [set |-> FALSE, value |-> "none"],
     location |-> [set |-> FALSE, value |-> FALSE]]

\* the request, its answer, the rows it found and the status it asked for
ProductRequest(op, r, id, status) ==
    [op |-> op, code |-> r.code, id |-> id, status |-> status,
     stock_before |-> hardware,
     product_before |-> IF id \in DOMAIN products THEN products[id] ELSE NoProduct]

InitPOH ==
    /\ spools = [s \in SpoolIds |-> DefaultReserve + MaxGrams + 1]
    /\ settings = NoSettings
    /\ jobs = [j \in JobIds |-> NoJob]
    /\ products = [p \in ProductIds |-> NoProduct]
    /\ hardware \in {q \in [HardwareIds -> {1, MaxQty, MaxStock}] :
                        \A a, b \in HardwareIds : a <= b => q[a] <= q[b]}
    /\ orders = [o \in OrderIds |-> NoOrder]
    /\ projects \in InitialProjects
    /\ nextId = [job |-> 1, order |-> 1, product |-> 1]
    /\ last = NoRequest
    /\ jobHist = [j \in JobIds |-> NoHist]
    /\ ordHist = [o \in OrderIds |-> NoOrdHist]
    /\ prodHist = [p \in ProductIds |-> NoProdHist]
    /\ catalog = PlainCatalog
    /\ pending = <<>>

\* what the product handlers never write
notProducts == <<spools, settings, jobs, orders, projects, jobHist, ordHist, catalog,
                 pending>>

CreateProductOnHandFrom(inputs) ==
    /\ nextId.product \in ProductIds
    /\ \E data \in inputs :
        LET id == nextId.product
            r == create_product_on_hand(hardware, jobs, projects, products, id, data)
        IN /\ hardware' = get_db(hardware, r.hardware, r.committed)
           /\ products' = get_db(products, r.products, r.committed)
           /\ nextId' = IF r.committed THEN [nextId EXCEPT !.product = @ + 1]
                        ELSE nextId
           /\ last' = ProductRequest("create_product_on_hand", r, id, data.status)
           /\ prodHist' =
                IF r.committed
                THEN [prodHist EXCEPT ![id] =
                         [created_status |-> data.status,
                          deductions |-> IF hardware' # hardware THEN 1 ELSE 0,
                          at_creation |-> hardware' # hardware,
                          off_transition |-> FALSE,
                          updates |-> 0]]
                ELSE prodHist
    /\ UNCHANGED notProducts

CreateProductOnHand == CreateProductOnHandFrom(ProductOnHandCreateInputs)

UpdateProductOnHand ==
    /\ \E id \in ProductIds, data \in ProductOnHandUpdateInputs :
        /\ products[id].exists
        /\ prodHist[id].updates < MaxProductUpdates
        /\ LET r == update_product_on_hand(hardware, projects, products, id, data)
               transition == /\ products[id].status = "printed"
                             /\ r.products[id].status = "completed"
           IN /\ hardware' = get_db(hardware, r.hardware, r.committed)
              /\ products' = get_db(products, r.products, r.committed)
              /\ last' = ProductRequest("update_product_on_hand", r, id,
                                        data.status.value)
              /\ prodHist' =
                    [prodHist EXCEPT
                        ![id].updates = @ + 1,
                        ![id].deductions = IF hardware' # hardware THEN @ + 1 ELSE @,
                        ![id].off_transition =
                            @ \/ (hardware' # hardware /\ ~transition)]
    /\ UNCHANGED <<nextId>>
    /\ UNCHANGED notProducts

DeleteProductOnHand ==
    /\ \E id \in ProductIds :
        /\ products[id].exists
        /\ LET r == delete_product_on_hand(hardware, products, id)
           IN /\ hardware' = get_db(hardware, r.hardware, r.committed)
              /\ products' = get_db(products, r.products, r.committed)
              /\ last' = ProductRequest("delete_product_on_hand", r, id, "none")
    /\ UNCHANGED <<nextId, prodHist>>
    /\ UNCHANGED notProducts

\* the request, its answer and the rows it found
ConvertRequest(r, id, order_id) ==
    [op |-> "convert_to_order", code |-> r.code, id |-> id, status |-> "none",
     stock_before |-> hardware,
     product_before |-> IF id \in DOMAIN products THEN products[id] ELSE NoProduct,
     order_id |-> order_id, jobs_before |-> jobs, orders_before |-> orders,
     products_before |-> products]

ConvertToOrder ==
    /\ \E id \in ProductIds :
        LET order_id == nextId.order
            \* the orders table with room for the row the flush inserts
            table == IF order_id \in OrderIds THEN orders
                     ELSE orders @@ (order_id :> NoOrder)
            r == convert_to_order(hardware, catalog, jobs, projects, table, products, id,
                                  order_id)
        IN /\ r.committed => order_id \in OrderIds
           /\ hardware' = get_db(hardware, r.hardware, r.committed)
           /\ jobs' = get_db(jobs, r.jobs, r.committed)
           /\ orders' = get_db(orders, r.orders, r.committed)
           /\ products' = get_db(products, r.products, r.committed)
           /\ nextId' = IF r.committed THEN [nextId EXCEPT !.order = @ + 1] ELSE nextId
           /\ last' = ConvertRequest(r, id, order_id)
           /\ ordHist' =
                IF r.committed
                THEN [TouchOrders(ordHist) EXCEPT ![order_id] =
                         [NoOrdHist EXCEPT !.created_status = "sold",
                                           !.stock_before_create = hardware,
                                           !.untouched = TRUE,
                                           !.deducted = hardware' # hardware]]
                ELSE ordHist
    /\ UNCHANGED <<spools, settings, projects, jobHist, prodHist, catalog, pending>>

\* a request that names a product that does not exist
ProductNotFound ==
    /\ \E id \in ProductIds,
          op \in {"update_product_on_hand", "delete_product_on_hand"} :
        /\ ~products[id].exists
        /\ LET r == IF op = "update_product_on_hand"
                    THEN update_product_on_hand(hardware, projects, products, id,
                                                NoProductUpdate)
                    ELSE delete_product_on_hand(hardware, products, id)
           IN /\ hardware' = get_db(hardware, r.hardware, r.committed)
              /\ products' = get_db(products, r.products, r.committed)
              /\ last' = ProductRequest(op, r, id, "none")
    /\ UNCHANGED <<nextId, prodHist>>
    /\ UNCHANGED notProducts

\* what is asked of an order a product was converted to: to be finished, and
\* to have its hardware lines and spool allocations replaced
ConvertedOrderUpdateInputs ==
    {OrderUpdate([set |-> TRUE, value |-> "finished"], [set |-> FALSE, value |-> 0],
                 [set |-> FALSE, value |-> 0], [set |-> FALSE, value |-> <<>>],
                 [set |-> FALSE, value |-> <<>>]),
     OrderUpdate([set |-> FALSE, value |-> "none"], [set |-> FALSE, value |-> 0],
                 [set |-> FALSE, value |-> 0],
                 [set |-> TRUE, value |-> <<OrderSpool(1, 1, 1)>>],
                 [set |-> TRUE, value |-> <<OrderHardware(1, MaxQty, FALSE)>>])}

NextPOH ==
    \/ CreatePrintJobFrom(ProductJobInputs)
    \/ DeletePrintJob
    \/ CreateProductOnHand
    \/ UpdateProductOnHand
    \/ DeleteProductOnHand
    \/ ConvertToOrder
    \/ UpdateOrderFrom(ConvertedOrderUpdateInputs)
    \/ ProductNotFound

SpecPOH == InitPOH /\ [][NextPOH]_vars

-----------------------------------------------------------------------------
(* What the product claims speak of *)

ProductCreated == last.op = "create_product_on_hand" /\ last.code = 200
ProductUpdated == last.op = "update_product_on_hand" /\ last.code = 200

\* C10: over the creation and the updates of a product on hand, the hardware of
\* its project is deducted at most once, never by the creation and only by an
\* update that takes the product from printed to completed.
C10_DeductedAtMostOnce ==
    \A p \in ProductIds :
        /\ prodHist[p].deductions <= 1
        /\ prodHist[p].created_status # "none" =>
                ~prodHist[p].at_creation /\ ~prodHist[p].off_transition

\* what the handlers do keep: creation never deducts, and an update deducts
\* only when it takes the product from printed to completed
C10_OnlyOnTransition ==
    \A p \in ProductIds :
        prodHist[p].created_status # "none" =>
            ~prodHist[p].at_creation /\ ~prodHist[p].off_transition

\* a product whose project hardware has been deducted twice
C10_Reached ==
    \E p \in ProductIds :
        /\ prodHist[p].deductions = 2
        /\ ProductUpdated /\ last.id = p
        /\ hardware # last.stock_before

\* the hardware lines of the project a product belongs to
ProjectLines(product) ==
    IF product.project_id \in DOMAIN projects /\ projects[product.project_id].exists
    THEN projects[product.project_id].hardware ELSE <<>>

\* some line asks for more than the stock holds
LineShort(hw, lines) ==
    \E i \in 1..Len(lines) : lines[i].quantity > hw[lines[i].hardware_item_id]

\* C11: an update that takes a product from printed to completed while some
\* hardware line of its project asks for more than the item's stock is refused
\* with 400, and every hardware stock and the product row are as before.
C11_ShortCompletionRejected ==
    (/\ last.op = "update_product_on_hand"
     /\ last.product_before.exists
     /\ last.product_before.status = "printed"
     /\ last.status = "completed"
     /\ LineShort(last.stock_before, ProjectLines(last.product_before)))
    => /\ last.code = 400
       /\ hardware = last.stock_before
       /\ products[last.id] = last.product_before

\* the refusal comes from a later line of the project while the first is covered
C11_Witness ==
    /\ last.op = "update_product_on_hand" /\ last.code = 400
    /\ last.product_before.status = "printed" /\ last.status = "completed"
    /\ LineShort(last.stock_before, ProjectLines(last.product_before))
    /\ ~LineShort(last.stock_before, SubSeq(ProjectLines(last.product_before), 1, 1))
    /\ hardware = last.stock_before
    /\ products[last.id].status = "printed"

Converted == last.op = "convert_to_order" /\ last.code = 200

C12_CompletedReached ==
    /\ Converted
    /\ last.product_before.status = "completed"
    /\ ProjectLines(last.product_before) # <<>>
    /\ hardware = last.stock_before

\* C13: converting a product whose print job already has an order is refused
\* with 409, and the stock, the print jobs, the orders and the products are as
\* before.
C13_SecondConversionConflicts ==
    (/\ last.op = "convert_to_order"
     /\ last.product_before.exists
     /\ last.jobs_before[last.product_before.print_job_id].exists
     /\ last.jobs_before[last.product_before.print_job_id].order_id # 0)
    => /\ last.code = 409
       /\ hardware = last.stock_before
       /\ jobs = last.jobs_before
       /\ orders = last.orders_before
       /\ products = last.products_before

\* a second product of a converted print job is refused, while its own project
\* hardware is short
C13_Witness ==
    /\ last.op = "convert_to_order" /\ last.code = 409
    /\ last.product_before.exists
    /\ last.jobs_before[last.product_before.print_job_id].order_id # 0
    /\ orders[last.jobs_before[last.product_before.print_job_id].order_id].exists
    /\ products[last.id] = last.product_before
    /\ hardware = last.stock_before

-----------------------------------------------------------------------------
(* spool_validator.py: validate_spool_inventory called on a batch *)

\* remaining weights (a spool can be negative once prevention was off) and the
\* amounts a batch asks for
ValidatedWeights == {0 - 1, 1, 2 * DefaultReserve}
ValidatedGrams == {0, 1, DefaultReserve + 1, 2 * DefaultReserve + MaxGrams}

ValidatedUsages ==
    {Usage(s, g) : s \in SpoolIds \cup {MissingSpool}, g \in ValidatedGrams}

ValidatedBatches == UNION {[1..n -> ValidatedUsages] : n \in 0..MaxAllocs}

InitVal ==
    /\ spools \in [SpoolIds -> ValidatedWeights]
    /\ settings \in InitialSettings \cup {AppSettings(TRUE, DefaultReserve)}
    /\ jobs = [j \in JobIds |-> NoJob]
    /\ products = [p \in ProductIds |-> NoProduct]
    /\ hardware = [h \in HardwareIds |-> MaxQty]
    /\ orders = [o \in OrderIds |-> NoOrder]
    /\ projects = <<>>
    /\ nextId = [job |-> 1, order |-> 1, product |-> 1]
    /\ last = NoRequest
    /\ jobHist = [j \in JobIds |-> NoHist]
    /\ ordHist = [o \in OrderIds |-> NoOrdHist]
    /\ prodHist = [p \in ProductIds |-> NoProdHist]
    /\ catalog = PlainCatalog
    /\ pending = <<>>

ValidateSpoolInventory ==
    /\ \E spool_usages \in ValidatedBatches :
        last' = [op |-> "validate_spool_inventory", code |-> 0,
                 spool_usages |-> spool_usages, stock_before |-> spools,
                 result |-> validate_spool_inventory(spools, settings, spool_usages)]
    /\ UNCHANGED <<spools, settings, jobs, products, nextId, jobHist, others>>

NextVal == ValidateSpoolInventory

SpecVal == InitVal /\ [][NextVal]_vars

Validated == last.op = "validate_spool_inventory"

\* the pairs of a batch whose spool exists and whose amount the spool cannot
\* give without going under the reserve
BelowReserve(u) ==
    /\ u.spool_id \in SpoolIds
    /\ spools[u.spool_id] - reserve_of(settings) - u.filament_used_g < 0

\* C15: with prevention disabled every batch is valid and has no shortage; with
\* prevention enabled (also when there is no settings row, the reserve then
\* being 5) a batch is valid exactly when no pair with an existing spool has
\* remaining - reserve - requested < 0, and the shortages are the violating
\* pairs, one each, in batch order.
C15_ValidIffNothingBelowReserve ==
    Validated =>
        LET batch == last.spool_usages
            res == last.result
            violating == SelectSeq(batch, BelowReserve)
        IN IF ~prevent_of(settings)
           THEN res.is_valid /\ res.shortages = <<>>
           ELSE /\ res.is_valid <=>
                     \A i \in 1..Len(batch) :
                        batch[i].spool_id \in SpoolIds =>
                            spools[batch[i].spool_id] - reserve_of(settings)
                                - batch[i].filament_used_g >= 0
                /\ Len(res.shortages) = Len(violating)
                /\ \A i \in 1..Len(violating) :
                        /\ res.shortages[i].spool_id = violating[i].spool_id
                        /\ res.shortages[i].requested_weight_g
                                = violating[i].filament_used_g
                /\ ~settings.exists => reserve_of(settings) = 5

\* no settings row: the second pair of a batch is the only one below the
\* reserve, the batch is refused with one shortage
C15_Witness ==
    /\ Validated /\ ~settings.exists
    /\ Len(last.spool_usages) = 2
    /\ ~BelowReserve(last.spool_usages[1]) /\ last.spool_usages[1].spool_id \in SpoolIds
    /\ BelowReserve(last.spool_usages[2])
    /\ ~last.result.is_valid /\ Len(last.result.shortages) = 1

\* prevention disabled: a batch that asks for more than a spool holds is valid
C15_DisabledReached ==
    /\ Validated /\ ~prevent_of(settings)
    /\ \E i \in 1..Len(last.spool_usages) :
        /\ last.spool_usages[i].spool_id \in SpoolIds
        /\ last.spool_usages[i].filament_used_g > spools[last.spool_usages[i].spool_id]
    /\ last.result.is_valid /\ last.result.shortages = <<>>

\* C16: every shortage carries the spool's stored remaining weight as current,
\* the amount asked for as requested, remaining - requested as resulting (the
\* reserve is not subtracted), max(0, requested - remaining) as shortage_g and
\* remaining >= requested as within_reserve.
C16_ShortageFields ==
    Validated =>
        LET violating == SelectSeq(last.spool_usages, BelowReserve)
        IN \A i \in 1..Len(last.result.shortages) :
            LET sh == last.result.shortages[i]
                remaining == spools[sh.spool_id]
                requested == violating[i].filament_used_g
            IN /\ i <= Len(violating)
               /\ sh.spool_id = violating[i].spool_id
               /\ sh.current_weight_g = remaining
               /\ sh.requested_weight_g = requested
               /\ sh.resulting_weight_g = remaining - requested
               /\ sh.shortage_g = Max(0, requested - remaining)
               /\ sh.within_reserve = (remaining >= requested)

\* reserve 5, remaining 10, requested 6: a shortage within the reserve, short by 0
C16_Witness ==
    /\ Validated
    /\ reserve_of(settings) = 5
    /\ \E i \in 1..Len(last.result.shortages) :
        /\ last.result.shortages[i].current_weight_g = 10
        /\ last.result.shortages[i].requested_weight_g = 6
        /\ last.result.shortages[i].resulting_weight_g = 4
        /\ last.result.shortages[i].within_reserve
        /\ last.result.shortages[i].shortage_g = 0

-----------------------------------------------------------------------------
(* print_jobs.py: the legacy amount of a completed job is changed *)

\* an update that sets nothing but filament_used_g, on a completed job that has
\* a spool and no allocation rows
LegacyAmountUpdate ==
    /\ last.op = "update_print_job"
    /\ last.job_before.exists
    /\ last.job_before.status = "completed"
    /\ last.job_before.print_job_spools = <<>>
    /\ last.job_before.spool_id \in SpoolIds
    /\ last.amount_set /\ ~last.spools_set /\ ~last.spool_id_set
    /\ last.status = "none"

\* C19: such an update is judged on net_change = new - old alone: it is refused
\* with 422 exactly when net_change > 0, force is false, prevention is enabled
\* and remaining - reserve - net_change < 0, and then the spools and the job are
\* as before; otherwise it succeeds, the job's spool ends at before - net_change
\* (not below 0 when prevention is enabled), no other spool changes and the job
\* stores the new amount.
C19_LegacyAmountDelta ==
    LegacyAmountUpdate =>
        LET s == last.job_before.spool_id
            before == last.stock_before[s]
            net_change == last.amount - last.job_before.filament_used_g
            short == /\ net_change > 0 /\ ~last.force /\ prevent_of(settings)
                     /\ before - reserve_of(settings) - net_change < 0
        IN IF short
           THEN /\ last.code = 422
                /\ spools = last.stock_before
                /\ jobs[last.id] = last.job_before
           ELSE /\ last.code = 200
                /\ spools[s] = IF prevent_of(settings) THEN Max(0, before - net_change)
                               ELSE before - net_change
                /\ \A t \in SpoolIds \ {s} : spools[t] = last.stock_before[t]
                /\ jobs[last.id].filament_used_g = last.amount
                /\ jobs[last.id].spool_id = s

\* the amount is lowered and the spool gets the difference back
C19_Witness ==
    /\ LegacyAmountUpdate /\ last.code = 200
    /\ last.amount < last.job_before.filament_used_g
    /\ spools[last.job_before.spool_id]
            = last.stock_before[last.job_before.spool_id]
                + (last.job_before.filament_used_g - last.amount)

\* the amount is raised by more than the spool can give: nothing changes
C19_ShortageReached ==
    /\ LegacyAmountUpdate /\ last.code = 422
    /\ last.amount > last.job_before.filament_used_g
    /\ last.job_before.filament_used_g > 0
    /\ spools = last.stock_before
    /\ jobs[last.id] = last.job_before

-----------------------------------------------------------------------------
(* From an order to its print job, to a product on hand and back to an     *)
(* order: the requests of orders.py, print_jobs.py and product_on_hand.py  *)
(* that meet on one print job.                                             *)

MissingOrder == MaxOrders + 1

\* orders that are still to be printed: with or without a project, a legacy
\* spool, and spool allocations (one, two out of order, two on one spool)
SaleOrderInputs ==
    {OrderCreate("ordered", p, sid, sl, <<>>) :
        p \in {0, 1}, sid \in {0, 1},
        sl \in {<<>>} \cup OrderSpoolLists
                \cup {<<OrderSpool(1, 1, 1), OrderSpool(1, MaxGrams, 2)>>}}

\* completed print jobs created directly, on an existing and on a missing spool
SaleJobInputs ==
    [spool_id : {1, MissingSpool}, filament_used_g : {1, MaxGrams},
     spools : {<<>>}, status : {"completed"}, force : BOOLEAN]
    \cup
    [spool_id : {0}, filament_used_g : {0},
     spools : {<<PrintJobSpool(1, 1, 1), PrintJobSpool(1, MaxGrams, 2)>>,
               MissingSpoolList},
     status : {"completed"}, force : BOOLEAN]

\* updates that replace the allocation list, change the legacy amount, or name
\* a spool that does not exist
SaleUpdateInputs ==
    {PrintJobUpdate(st, sl, fg, si, f) :
        st \in NoStatus,
        sl \in Given({<<PrintJobSpool(1, MaxGrams, 1)>>,
                      <<PrintJobSpool(1, 1, 1), PrintJobSpool(1, MaxGrams, 2)>>,
                      MissingSpoolList}),
        fg \in NoneSet, si \in NoneSet, f \in BOOLEAN}
    \cup
    {PrintJobUpdate(st, sl, fg, si, f) :
        st \in NoStatus, sl \in NoSpools,
        fg \in Given({0, MaxGrams}), si \in NoneSet, f \in BOOLEAN}
    \cup
    {PrintJobUpdate(st, sl, fg, si, f) :
        st \in NoStatus, sl \in NoSpools,
        fg \in NoneSet, si \in Given({MissingSpool}), f \in BOOLEAN}

SaleProductInputs ==
    [project_id : {1}, print_job_id : JobIds, status : ProductStatuses,
     location : {TRUE}]

\* the first project lists more hardware than the stock holds and has a
\* filament template of none or of several grams
SaleProjects ==
    {[p \in ProjectIds |->
        IF p = 1 THEN Project(<<ProjectHardware(1, MaxQty)>>, g) ELSE Project(<<>>, 0)] :
        g \in {0, MaxGrams}}

InitSale ==
    /\ spools \in {w \in [SpoolIds -> InitialWeights] :
                        \A a, b \in SpoolIds : a <= b => w[a] <= w[b]}
    /\ settings \in InitialSettings
    /\ jobs = [j \in JobIds |-> NoJob]
    /\ products = [p \in ProductIds |-> NoProduct]
    /\ hardware = [h \in HardwareIds |-> 1]
    /\ orders = [o \in OrderIds |-> NoOrder]
    /\ projects \in SaleProjects
    /\ nextId = [job |-> 1, order |-> 1, product |-> 1]
    /\ last = NoRequest
    /\ jobHist = [j \in JobIds |-> NoHist]
    /\ ordHist = [o \in OrderIds |-> NoOrdHist]
    /\ prodHist = [p \in ProductIds |-> NoProdHist]
    /\ catalog = PlainCatalog
    /\ pending = <<>>

\* the request, its answer and the rows it found
FromOrderRequest(r, job_id, order_id, force) ==
    Request("create_print_job_from_order", r, job_id, force, NoUpdate)
        @@ [order_id |-> order_id, jobs_before |-> jobs,
            order_before |-> IF order_id \in DOMAIN orders THEN orders[order_id]
                             ELSE NoOrder]

CreatePrintJobFromOrder ==
    /\ \E order_id \in OrderIds \cup {MissingOrder}, force \in BOOLEAN :
        LET job_id == nextId.job
            \* the print_jobs table with room for the row the flush inserts
            table == IF job_id \in DOMAIN jobs THEN jobs ELSE jobs @@ (job_id :> NoJob)
            r == create_print_job_from_order(spools, settings, table, projects, orders,
                                             job_id, order_id, force)
        IN /\ r.committed => job_id \in DOMAIN jobs
           /\ spools' = get_db(spools, r.spools, r.committed)
           /\ jobs' = get_db(jobs, r.jobs, r.committed)
           /\ nextId' = IF r.committed THEN [nextId EXCEPT !.job = @ + 1] ELSE nextId
           /\ last' = FromOrderRequest(r, job_id, order_id, force)
           /\ jobHist' =
                IF r.committed
                THEN [Touch(jobHist) EXCEPT ![job_id] =
                         [created_status |-> "completed",
                          stock_before_create |-> spools,
                          untouched |-> TRUE,
                          deducts_at_create |-> r.deducts,
                          deducted_by_update |-> FALSE,
                          updates |-> 0]]
                ELSE jobHist
    /\ UNCHANGED <<settings, products, others>>

\* an update, forced or not, that names a print job that does not exist
UpdateMissingPrintJob ==
    /\ \E id \in JobIds, force \in BOOLEAN :
        /\ ~jobs[id].exists
        /\ LET data == [NoUpdate EXCEPT !.force = force]
               r == update_print_job(spools, settings, jobs, id, data)
           IN /\ spools' = get_db(spools, r.spools, r.committed)
              /\ jobs' = get_db(jobs, r.jobs, r.committed)
              /\ last' = Request("update_print_job", r, id, force, data)
    /\ UNCHANGED <<settings, products, nextId, jobHist, others>>

NextSale ==
    \/ CreateOrderFrom(SaleOrderInputs)
    \/ CreatePrintJobFromOrder
    \/ CreatePrintJobFrom(SaleJobInputs)
    \/ UpdatePrintJobFrom(SaleUpdateInputs)
    \/ UpdateMissingPrintJob
    \/ CreateProductOnHandFrom(SaleProductInputs)
    \/ ConvertToOrder

SpecSale == InitSale /\ [][NextSale]_vars

-----------------------------------------------------------------------------
(* What the claims about shortages, force and orders' print jobs speak of  *)

ConsumingOps == {"create_print_job", "update_print_job", "create_print_job_from_order"}

FromOrder == last.op = "create_print_job_from_order"

\* C17 as claimed: the detail of a 422 of the three handlers lists the
\* shortages of the validation result one for one, every field as the
\* validation gave it, within_reserve included.
C17_ShortagesSurfaceUnchanged ==
    (last.op \in ConsumingOps /\ Shortage) =>
        /\ last.detail.type = "spool_shortage"
        /\ Len(last.detail.validation.shortages) = Len(last.validation.shortages)
        /\ \A i \in 1..Len(last.validation.shortages) :
            LET given == last.validation.shortages[i]
                shown == last.detail.validation.shortages[i]
            IN /\ shown.spool_id = given.spool_id
               /\ shown.current_weight_g = given.current_weight_g
               /\ shown.requested_weight_g = given.requested_weight_g
               /\ shown.resulting_weight_g = given.resulting_weight_g
               /\ shown.shortage_g = given.shortage_g
               /\ shown.within_reserve = given.within_reserve

\* what the handlers do keep: every field but within_reserve, which the
\* response always shows as false
C17_AllButWithinReserve ==
    (last.op \in ConsumingOps /\ Shortage) =>
        /\ last.detail.type = "spool_shortage"
        /\ Len(last.detail.validation.shortages) = Len(last.validation.shortages)
        /\ ~last.validation.is_valid
        /\ \A i \in 1..Len(last.validation.shortages) :
            LET given == last.validation.shortages[i]
                shown == last.detail.validation.shortages[i]
            IN /\ shown.spool_id = given.spool_id
               /\ shown.current_weight_g = given.current_weight_g
               /\ shown.requested_weight_g = given.requested_weight_g
               /\ shown.resulting_weight_g = given.resulting_weight_g
               /\ shown.shortage_g = given.shortage_g
               /\ ~shown.within_reserve

\* a print job from an order is refused for a spool that holds what is asked
\* but not the reserve; the response shows the shortage as not within the reserve
C17_Reached ==
    /\ FromOrder /\ Shortage
    /\ \E i \in 1..Len(last.validation.shortages) :
        /\ last.validation.shortages[i].within_reserve
        /\ last.validation.shortages[i].shortage_g = 0
        /\ ~last.detail.validation.shortages[i].within_reserve

\* the spools as a forced request of the three handlers must leave them
ForcedStock(s) ==
    LET before == last.stock_before[s]
    IN IF last.op = "update_print_job"
       THEN IF last.spools_set
            THEN LET restored == before
                        + (IF last.job_before.status = "completed"
                           THEN SumOn(Allocations(last.job_before), s) ELSE 0)
                 IN IF jobs[last.id].status = "completed"
                    THEN ClampRule(restored, SumOn(jobs[last.id].print_job_spools, s))
                    ELSE restored
            ELSE IF /\ last.amount_set
                    /\ last.job_before.status = "completed"
                    /\ last.job_before.print_job_spools = <<>>
                    /\ last.job_before.spool_id = s
                 THEN ClampRule(before, last.amount - last.job_before.filament_used_g)
            ELSE before
       ELSE IF jobs[last.id].status = "completed"
            THEN ClampRule(before, SumOn(Allocations(jobs[last.id]), s))
            ELSE before

\* C18: a forced request of the three handlers is never refused for a
\* shortage; when it succeeds every spool is where the clamp rule puts it;
\* it is still refused when it names a spool, a print job or an order that
\* does not exist, and a refused request changes neither spools nor print jobs.
C18_ForceBypassesOnlyShortage ==
    (last.op \in ConsumingOps /\ last.force) =>
        /\ ~Shortage
        /\ last.code \in {200, 201} =>
                \A s \in SpoolIds : spools[s] = ForcedStock(s)
        /\ last.names_missing => last.code = 400
        /\ (last.op = "update_print_job" /\ ~last.job_before.exists) => last.code = 404
        /\ (FromOrder /\ ~last.order_before.exists) => last.code = 404
        /\ last.code \notin {200, 201} =>
                /\ spools = last.stock_before
                /\ IF FromOrder THEN jobs = last.jobs_before
                   ELSE jobs[last.id] = last.job_before

\* a forced print job from an order takes more than the spool holds and the
\* spool ends at 0
C18_Witness ==
    /\ FromOrder /\ last.force /\ last.code = 200
    /\ prevent_of(settings)
    /\ \E s \in SpoolIds :
        /\ last.stock_before[s] > 0
        /\ SumOn(Allocations(jobs[last.id]), s) > last.stock_before[s]
        /\ spools[s] = 0

\* forced requests that name a missing spool, print job or order are refused
C18_MissingSpoolReached ==
    /\ last.op \in ConsumingOps /\ last.force /\ last.names_missing /\ last.code = 400
    /\ spools = last.stock_before

C18_MissingJobReached ==
    /\ last.op = "update_print_job" /\ last.force /\ last.code = 404

C18_MissingOrderReached ==
    /\ FromOrder /\ last.force /\ last.code = 404

\* the project template's grams of an order's project
TemplateGrams(order) ==
    IF order.project_id \in DOMAIN projects THEN projects[order.project_id].filament_grams
    ELSE 0

\* the allocations an order asks its print job to have
OrderAllocations(order) ==
    IF order.order_spools # <<>> THEN JobSpoolsOfOrder(order.order_spools)
    ELSE IF order.spool_id # 0 /\ TemplateGrams(order) > 0
         THEN <<PrintJobSpool(order.spool_id, TemplateGrams(order), 1)>>
    ELSE <<>>

\* C20: a create_print_job_from_order that succeeds adds exactly one print job,
\* completed and linked to the order, with the order's spool allocations (same
\* spool, grams and position) or else the order's legacy spool and the project
\* template's grams, and leaves every spool where the clamp rule puts it for
\* these allocations; an unforced call whose validation finds a shortage is
\* refused with 422, adds no print job and changes no spool.
C20_PrintJobFromOrder ==
    FromOrder =>
        LET order == last.order_before
            allocs == OrderAllocations(order)
            short == /\ order.exists /\ order.project_id \in DOMAIN projects
                     /\ ~last.force /\ prevent_of(settings)
                     /\ \E i \in 1..Len(allocs) :
                            last.stock_before[allocs[i].spool_id] - reserve_of(settings)
                                - allocs[i].filament_used_g < 0
        IN /\ last.code = 200 =>
                /\ ~last.jobs_before[last.id].exists
                /\ jobs[last.id].exists
                /\ \A j \in JobIds \ {last.id} : jobs[j] = last.jobs_before[j]
                /\ jobs[last.id].status = "completed"
                /\ jobs[last.id].order_id = last.order_id
                /\ IF order.order_spools # <<>>
                   THEN /\ Len(jobs[last.id].print_job_spools) = Len(order.order_spools)
                        /\ \A i \in 1..Len(order.order_spools) :
                            LET pjs == jobs[last.id].print_job_spools[i]
                                os == order.order_spools[i]
                            IN /\ pjs.spool_id = os.spool_id
                               /\ pjs.filament_used_g = os.filament_grams
                               /\ pjs.position = os.position
                   ELSE /\ jobs[last.id].print_job_spools = <<>>
                        /\ jobs[last.id].spool_id = order.spool_id
                        /\ jobs[last.id].filament_used_g = TemplateGrams(order)
                /\ \A s \in SpoolIds :
                        spools[s] = ClampRule(last.stock_before[s], SumOn(allocs, s))
                /\ ~short
           /\ short =>
                /\ last.code = 422
                /\ jobs = last.jobs_before
                /\ spools = last.stock_before

\* an order with two allocations on one spool gets its print job and the spool
\* loses both
C20_Witness ==
    /\ FromOrder /\ last.code = 200 /\ ~last.force
    /\ Len(last.order_before.order_spools) = 2
    /\ jobs[last.id].order_id = last.order_id
    /\ \E s \in SpoolIds :
        /\ SumOn(jobs[last.id].print_job_spools, s) = MaxGrams + 1
        /\ spools[s] = last.stock_before[s] - (MaxGrams + 1)

\* the legacy path: the order's spool loses the project template's grams
C20_LegacyReached ==
    /\ FromOrder /\ last.code = 200
    /\ last.order_before.order_spools = <<>>
    /\ jobs[last.id].filament_used_g = MaxGrams
    /\ spools[jobs[last.id].spool_id]
            = last.stock_before[jobs[last.id].spool_id] - MaxGrams

\* the unforced call is refused for a shortage
C20_ShortageReached ==
    /\ FromOrder /\ Shortage /\ ~last.force
    /\ jobs = last.jobs_before /\ spools = last.stock_before

-----------------------------------------------------------------------------
(* Hardware stock that does not cover a line *)

\* update_order was refused inside its deduction pass, or convert_to_order by
\* its stock check: a line asks for more than the stock holds
InsufficientHardware ==
    \/ last.op = "update_order" /\ last.code = 400 /\ last.deduct_pass
    \/ /\ last.op = "convert_to_order" /\ last.code = 400
       /\ last.product_before.exists
       /\ last.jobs_before[last.product_before.print_job_id].exists

\* C14: when update_order or convert_to_order finds a hardware line its stock
\* does not cover, every hardware stock and every order (status, hardware
\* lines, spool allocations) are as before the call, and so are the spools,
\* the print jobs and the products: also when earlier lines had been deducted
\* and when the old lines had been restored and replaced in the same call.
C14_InsufficientStockAborts ==
    InsufficientHardware =>
        /\ hardware = last.stock_before
        /\ IF last.op = "update_order"
           THEN orders[last.id] = last.order_before
           ELSE /\ orders = last.orders_before
                /\ jobs = last.jobs_before
                /\ products = last.products_before

\* finishing an order is refused at its second line after the first was covered
C14_Witness ==
    /\ last.op = "update_order" /\ last.code = 400 /\ last.deduct_pass
    /\ ~last.hardware_set
    /\ Len(last.order_before.order_hardware) = 2
    /\ last.stock_before[last.order_before.order_hardware[1].hardware_item_id]
            >= last.order_before.order_hardware[1].quantity
    /\ hardware = last.stock_before
    /\ orders[last.id].status = "sold"

\* a finished order's lines and spool allocations are replaced and the new
\* lines are refused: the old lines, allocations and stock stay
C14_ReplacedReached ==
    /\ last.op = "update_order" /\ last.code = 400 /\ last.deduct_pass
    /\ last.hardware_set
    /\ last.order_before.status = "finished"
    /\ HasTracked(last.order_before.order_hardware)
    /\ orders[last.id] = last.order_before
    /\ orders[last.id].order_spools = <<>>
    /\ hardware = last.stock_before

\* a conversion is refused by its stock check
C14_ConversionReached ==
    /\ last.op = "convert_to_order" /\ last.code = 400
    /\ last.product_before.status = "printed"
    /\ products[last.id] = last.product_before
    /\ hardware = last.stock_before

-----------------------------------------------------------------------------
(* orders.py: create_print_job_from_order asked again for the same order *)

OrderJobIds == 1..MaxOrderJobs

InitRepeat ==
    /\ spools \in {w \in [SpoolIds -> InitialWeights] :
                        \A a, b \in SpoolIds : a <= b => w[a] <= w[b]}
    /\ settings \in InitialSettings
    /\ jobs = [j \in OrderJobIds |-> NoJob]
    /\ products = [p \in ProductIds |-> NoProduct]
    /\ hardware = [h \in HardwareIds |-> 1]
    /\ orders = [o \in OrderIds |-> NoOrder]
    /\ projects \in SaleProjects
    /\ nextId = [job |-> 1, order |-> 1, product |-> 1]
    /\ last = NoRequest
    /\ jobHist = [j \in OrderJobIds |-> NoHist]
    /\ ordHist = [o \in OrderIds |-> NoOrdHist]
    /\ prodHist = [p \in ProductIds |-> NoProdHist]
    /\ catalog = PlainCatalog
    /\ pending = <<>>

NextRepeat == CreateOrderFrom(SaleOrderInputs) \/ CreatePrintJobFromOrder

SpecRepeat == InitRepeat /\ [][NextRepeat]_vars

\* the print jobs the order of the last request had before the request
EarlierJobs ==
    {j \in DOMAIN last.jobs_before :
        last.jobs_before[j].exists /\ last.jobs_before[j].order_id = last.order_id}

\* C21: create_print_job_from_order for an order that already has a print job
\* is served as the first call was: unless it is unforced and short of stock
\* it answers 200, adds a second print job of the order beside the first and
\* takes the order's filament from the spools again, so that the spools stand
\* where taking it twice from the stock before the job made just before puts
\* them.
C21_SecondJobDeductsAgain ==
    (FromOrder /\ EarlierJobs # {}) =>
        LET order == last.order_before
            allocs == OrderAllocations(order)
            short == /\ ~last.force /\ prevent_of(settings)
                     /\ \E i \in 1..Len(allocs) :
                            last.stock_before[allocs[i].spool_id] - reserve_of(settings)
                                - allocs[i].filament_used_g < 0
        IN IF short THEN last.code = 422 /\ jobs = last.jobs_before
           ELSE /\ last.code = 200
                /\ last.id \notin EarlierJobs
                /\ jobs[last.id].exists /\ jobs[last.id].order_id = last.order_id
                /\ \A j \in EarlierJobs :
                    /\ jobs[j] = last.jobs_before[j]
                    /\ Allocations(jobs[j]) = Allocations(jobs[last.id])
                    /\ \A s \in SpoolIds :
                        /\ spools[s] = ClampRule(last.stock_before[s], SumOn(allocs, s))
                        /\ j + 1 = last.id
                            => last.stock_before[s] =
                                    ClampRule(jobHist[j].stock_before_create[s],
                                              SumOn(allocs, s))

\* the second print job of an order: both exist and the spool lost the order's
\* filament twice
C21_Witness ==
    /\ FromOrder /\ last.code = 200 /\ ~last.force
    /\ \E j \in EarlierJobs, s \in SpoolIds :
        /\ jobs[j].exists /\ jobs[last.id].exists /\ j # last.id
        /\ SumOn(Allocations(jobs[last.id]), s) > 0
        /\ spools[s] = jobHist[j].stock_before_create[s]
                            - 2 * SumOn(Allocations(jobs[last.id]), s)

-----------------------------------------------------------------------------
(* orders.py: the order handlers and the spools *)

\* C22: create_order, update_order and delete_order leave the remaining weight
\* of every spool as it was before the request, whatever the status of the
\* order and whether or not it carries allocations
C22_OrdersLeaveSpools ==
    last.op \in {"create_order", "update_order", "delete_order"}
        => spools = last.spools_before

\* update_order has replaced the allocations of a finished order
C22_Witness ==
    /\ OrderUpdated
    /\ orders[last.id].status = "finished"
    /\ orders[last.id].order_spools # <<>>
    /\ orders[last.id].order_spools # last.order_before.order_spools

-----------------------------------------------------------------------------
(* print_jobs.py: delete_print_job and the products on hand *)

\* C23: delete_print_job on a print job a product on hand references is
\* refused with 400: the job, its allocations and the remaining weight of every
\* spool stay as they were, also when the job is completed
C23_ReferencedJobKept ==
    (last.op = "delete_print_job" /\ LinkedProduct(products, last.id))
        => /\ last.code = 400
           /\ jobs[last.id].exists
           /\ jobs[last.id] = last.job_before
           /\ spools = last.stock_before

\* the refused delete named a completed job with an allocation
C23_Witness ==
    /\ last.op = "delete_print_job"
    /\ LinkedProduct(products, last.id)
    /\ last.job_before.status = "completed"
    /\ last.job_before.print_job_spools # <<>>
    /\ last.code = 400

-----------------------------------------------------------------------------
(* print_jobs.py: the remaining weight and the capacity of a spool *)

\* C24: while negative prevention is enabled, every spool keeps
\* 0 <= remaining_weight_g <= total_weight_g through the print-job requests
C24_WithinCapacity ==
    prevent_of(settings)
        => \A s \in SpoolIds :
              /\ 0 <= spools[s]
              /\ spools[s] <= catalog.spools[s].total_weight_g

\* a delete has restored a completed job's grams with prevention enabled
C24_Witness ==
    /\ prevent_of(settings)
    /\ Deleted
    /\ last.job_before.status = "completed"
    /\ spools # last.stock_before

-----------------------------------------------------------------------------
(* spools.py: tracking ids.  There is one filament type; a tracking id is   *)
(* its abbreviation followed by a number, written here as the number, and   *)
(* 0 is None.  create_spool is served in two steps, the part up to db.add   *)
(* and the commit, so that two requests can be in flight together.          *)

TrackingIds == 1..MaxTracking

\* the outcome of a spools handler: the session's spools rows
SpoolOutcome(code, committed, sp, cat) ==
    [code |-> code, committed |-> committed, spools |-> sp, catalog |-> cat]

\* generate_tracking_id: the highest number among the rows, plus one
generate_tracking_id(rows) ==
    LET nums == {rows[s].tracking_id : s \in DOMAIN rows} \cup {0}
    IN  (CHOOSE n \in nums : \A k \in nums : k <= n) + 1

\* check_tracking_id_duplicate: some row, other than the excluded one, carries
\* the tracking id (0 excludes nothing; None is compared with IS NULL)
check_tracking_id_duplicate(rows, tracking_id, exclude_spool_id) ==
    \E s \in DOMAIN rows :
        /\ rows[s].tracking_id = tracking_id
        /\ (exclude_spool_id # 0 => s # exclude_spool_id)

\* create_spool up to db.add: the tracking id is generated when none is given,
\* otherwise checked; 409 unless force_duplicate
create_spool_check(cat, data, force_duplicate) ==
    IF data.tracking_id = 0
    THEN [code |-> 0, tracking_id |-> generate_tracking_id(cat.spools)]
    ELSE IF /\ check_tracking_id_duplicate(cat.spools, data.tracking_id, 0)
            /\ ~force_duplicate
    THEN [code |-> 409, tracking_id |-> data.tracking_id]
    ELSE [code |-> 0, tracking_id |-> data.tracking_id]

\* create_spool from db.add on: the row, the usage counts, the commit.  The
\* spools table has no unique constraint on tracking_id, so the commit raises
\* no IntegrityError
create_spool_commit(sp, cat, request) ==
    SpoolOutcome(201, TRUE,
        Append(sp, request.remaining_weight_g),
        [cat EXCEPT !.spools = Append(@, Spool(request.tracking_id,
                                               request.purchase_price,
                                               request.total_weight_g)),
                    !.usage_count = @ + 1])

\* update_spool: 404; 409 for a tracking id another spool carries, unless
\* force_duplicate; then every field of the request is assigned
update_spool(sp, cat, id, data, force_duplicate) ==
    IF id \notin DOMAIN cat.spools THEN SpoolOutcome(404, FALSE, sp, cat)
    ELSE IF /\ data.tracking_id.set
            /\ data.tracking_id.value # cat.spools[id].tracking_id
            /\ check_tracking_id_duplicate(cat.spools, data.tracking_id.value, id)
            /\ ~force_duplicate
    THEN SpoolOutcome(409, FALSE, sp, cat)
    ELSE SpoolOutcome(200, TRUE, sp,
            [cat EXCEPT !.spools[id] =
                Spool(IF data.tracking_id.set THEN data.tracking_id.value
                      ELSE @.tracking_id,
                      IF data.purchase_price.set THEN data.purchase_price.value
                      ELSE @.purchase_price,
                      IF data.total_weight_g.set THEN data.total_weight_g.value
                      ELSE @.total_weight_g)])

\* pass 1 of import_spools_csv: a tracking id that appears twice in the file
\* or that a row of the database carries is an error
RECURSIVE CsvErrors(_, _, _)
CsvErrors(rows, csv, seen_tracking_ids) ==
    IF csv = <<>> THEN FALSE
    ELSE LET tracking_id_raw == Head(csv)
         IN IF tracking_id_raw = 0 THEN CsvErrors(rows, Tail(csv), seen_tracking_ids)
            ELSE \/ tracking_id_raw \in seen_tracking_ids
                 \/ check_tracking_id_duplicate(rows, tracking_id_raw, 0)
                 \/ CsvErrors(rows, Tail(csv), seen_tracking_ids \cup {tracking_id_raw})

\* pass 2 of import_spools_csv: row by row, the tracking id of the file or a
\* generated one; the row is flushed before the next one is made
RECURSIVE CsvInsert(_, _, _)
CsvInsert(sp, cat, csv) ==
    IF csv = <<>> THEN [spools |-> sp, catalog |-> cat]
    ELSE LET tracking_id == IF Head(csv) # 0 THEN Head(csv)
                            ELSE generate_tracking_id(cat.spools)
             spool == Spool(tracking_id, 0, PlainCatalog.spools[1].total_weight_g)
         IN CsvInsert(Append(sp, spool.total_weight_g),
                      [cat EXCEPT !.spools = Append(@, spool), !.usage_count = @ + 1],
                      Tail(csv))

import_spools_csv(sp, cat, csv) ==
    IF CsvErrors(cat.spools, csv, {}) THEN SpoolOutcome(422, FALSE, sp, cat)
    ELSE LET done == CsvInsert(sp, cat, csv)
         IN SpoolOutcome(200, TRUE, done.spools, done.catalog)

\* the request, its answer and the rows it found; raced says that a request
\* in flight has passed the duplicate check with the same given tracking id
\* and without force_duplicate, as this one has, and has committed since
SpoolRequest(op, r, id, tracking_id, force, raced) ==
    [op |-> op, code |-> r.code, id |-> id, tracking_id |-> tracking_id,
     force |-> force, raced |-> raced,
     stock_before |-> spools, catalog_before |-> catalog]

SpoolCreateInputs ==
    [tracking_id : {0} \cup TrackingIds, purchase_price : {0},
     total_weight_g : {PlainCatalog.spools[1].total_weight_g},
     remaining_weight_g : {PlainCatalog.spools[1].total_weight_g}]

NoField == [set |-> FALSE, value |-> 0]

SpoolUpdate(tracking_id, purchase_price, total_weight_g) ==
    [tracking_id |-> tracking_id, purchase_price |-> purchase_price,
     total_weight_g |-> total_weight_g]

TrackingUpdateInputs ==
    {SpoolUpdate(t, NoField, NoField) : t \in Given({0} \cup TrackingIds)}

\* the tracking_id column of an upload, row by row
CsvFiles == UNION {[1..n -> {0} \cup TrackingIds] : n \in 1..MaxCsvRows}

InitSpool ==
    /\ spools = <<>>
    /\ settings = NoSettings
    /\ jobs = [j \in JobIds |-> NoJob]
    /\ products = [p \in ProductIds |-> NoProduct]
    /\ hardware = [h \in HardwareIds |-> MaxStock]
    /\ orders = [o \in OrderIds |-> NoOrder]
    /\ projects = <<>>
    /\ nextId = [job |-> 1, order |-> 1, product |-> 1]
    /\ last = NoRequest
    /\ jobHist = [j \in JobIds |-> NoHist]
    /\ ordHist = [o \in OrderIds |-> NoOrdHist]
    /\ prodHist = [p \in ProductIds |-> NoProdHist]
    /\ catalog = [PlainCatalog EXCEPT !.spools = <<>>]
    /\ pending = <<>>

notSpools == <<settings, jobs, products, hardware, orders, projects, nextId, jobHist,
               ordHist, prodHist>>

\* the requests of pending that have not committed yet
InFlight == {i \in DOMAIN pending : pending[i].spool_id = 0}

\* create_spool, first step: a request that passes the check is in flight
CreateSpoolCheck ==
    /\ Len(pending) < MaxSpoolRows
    /\ \E data \in SpoolCreateInputs, force_duplicate \in BOOLEAN :
        LET r == create_spool_check(catalog, data, force_duplicate)
        IN IF r.code = 409
           THEN /\ last' = SpoolRequest("create_spool", r, 0, data.tracking_id,
                                        force_duplicate, FALSE)
                /\ UNCHANGED pending
           ELSE /\ pending' = Append(pending,
                                [data EXCEPT !.tracking_id = r.tracking_id]
                                    @@ [given |-> data.tracking_id # 0,
                                        force_duplicate |-> force_duplicate,
                                        spool_id |-> 0])
                /\ UNCHANGED last
    /\ UNCHANGED <<spools, catalog>>
    /\ UNCHANGED notSpools

\* create_spool, second step
CreateSpoolCommit ==
    /\ Len(catalog.spools) < MaxSpoolRows
    /\ \E i \in InFlight :
        LET request == pending[i]
            r == create_spool_commit(spools, catalog, request)
            id == Len(r.catalog.spools)
            raced == /\ request.given /\ ~request.force_duplicate
                     /\ \E j \in DOMAIN pending :
                            /\ j # i /\ pending[j].spool_id # 0
                            /\ pending[j].given /\ ~pending[j].force_duplicate
                            /\ pending[j].tracking_id = request.tracking_id
        IN /\ spools' = get_db(spools, r.spools, r.committed)
           /\ catalog' = get_db(catalog, r.catalog, r.committed)
           /\ pending' = [pending EXCEPT ![i].spool_id = id]
           /\ last' = SpoolRequest("create_spool", r, id, request.tracking_id,
                                   request.force_duplicate, raced)
    /\ UNCHANGED notSpools

UpdateSpoolFrom(inputs) ==
    /\ \E id \in DOMAIN catalog.spools, data \in inputs, force_duplicate \in BOOLEAN :
        LET r == update_spool(spools, catalog, id, data, force_duplicate)
        IN /\ spools' = get_db(spools, r.spools, r.committed)
           /\ catalog' = get_db(catalog, r.catalog, r.committed)
           /\ last' = SpoolRequest("update_spool", r, id,
                                   IF data.tracking_id.set THEN data.tracking_id.value
                                   ELSE 0,
                                   force_duplicate, FALSE)
    /\ UNCHANGED pending
    /\ UNCHANGED notSpools

ImportSpoolsCsv ==
    /\ \E csv \in CsvFiles :
        /\ Len(catalog.spools) + Len(csv) <= MaxSpoolRows
        /\ LET r == import_spools_csv(spools, catalog, csv)
           IN /\ spools' = get_db(spools, r.spools, r.committed)
              /\ catalog' = get_db(catalog, r.catalog, r.committed)
              /\ last' = SpoolRequest("import_spools_csv", r, 0, 0, FALSE, FALSE)
    /\ UNCHANGED pending
    /\ UNCHANGED notSpools

NextSpool ==
    \/ CreateSpoolCheck
    \/ CreateSpoolCommit
    \/ UpdateSpoolFrom(TrackingUpdateInputs)
    \/ ImportSpoolsCsv

SpecSpool == InitSpool /\ [][NextSpool]_vars

\* C25: no two spools carry the same tracking id, whatever create_spool,
\* update_spool and import_spools_csv have done
C25_TrackingIdsUnique ==
    \A a, b \in DOMAIN catalog.spools :
        (a # b /\ catalog.spools[a].tracking_id # 0)
            => catalog.spools[a].tracking_id # catalog.spools[b].tracking_id

\* a create_spool with a given tracking id has committed next to other spools
C25_Witness ==
    /\ last.op = "create_spool" /\ last.code = 201
    /\ last.tracking_id # 0
    /\ Len(catalog.spools) >= 2

\* C26: of two create_spool requests in flight with the same given tracking
\* id, the one that commits second is answered 409 and leaves no spool and no
\* usage count behind
C26_RacedCreateConflicts ==
    (last.op = "create_spool" /\ last.raced)
        => /\ last.code = 409
           /\ spools = last.stock_before
           /\ catalog = last.catalog_before

\* the second of two such requests has reached its commit
C26_Witness ==
    /\ last.op = "create_spool" /\ last.raced
    /\ \E s \in DOMAIN catalog.spools :
          s # last.id /\ catalog.spools[s].tracking_id = last.tracking_id

-----------------------------------------------------------------------------
(* spools.py, hardware.py: deleting a spool or a hardware item that other   *)
(* rows reference.  A deleted row leaves the domain of its table.           *)

\* the rows of a table without the row of the id
Without(rows, id) == [k \in DOMAIN rows \ {id} |-> rows[k]]

\* spool.print_jobs: the print jobs whose spool_id is the spool
SpoolPrintJobs(jb, id) == {j \in DOMAIN jb : jb[j].exists /\ jb[j].spool_id = id}

\* the print_job_spools rows of the spool
SpoolJobRows(jb, id) ==
    {<<j, i>> \in (DOMAIN jb) \X (1..MaxPosition) :
        /\ jb[j].exists /\ i \in DOMAIN jb[j].print_job_spools
        /\ jb[j].print_job_spools[i].spool_id = id}

\* the order_spools rows of the spool
SpoolOrderRows(ords, id) ==
    {<<o, i>> \in (DOMAIN ords) \X (1..MaxPosition) :
        /\ ords[o].exists /\ i \in DOMAIN ords[o].order_spools
        /\ ords[o].order_spools[i].spool_id = id}

\* delete_spool: 404; 400 for a spool with print jobs, print_job_spools rows
\* or order_spools rows; the commit fails on the foreign key of an order whose
\* spool_id is the spool, and the failure is raised again (500)
delete_spool(sp, cat, jb, ords, id) ==
    IF id \notin DOMAIN sp THEN SpoolOutcome(404, FALSE, sp, cat)
    ELSE IF SpoolPrintJobs(jb, id) # {} THEN SpoolOutcome(400, FALSE, sp, cat)
    ELSE IF SpoolJobRows(jb, id) # {} THEN SpoolOutcome(400, FALSE, sp, cat)
    ELSE IF SpoolOrderRows(ords, id) # {} THEN SpoolOutcome(400, FALSE, sp, cat)
    ELSE IF \E o \in DOMAIN ords : ords[o].exists /\ ords[o].spool_id = id
    THEN SpoolOutcome(500, FALSE, Without(sp, id), [cat EXCEPT !.spools = Without(@, id)])
    ELSE SpoolOutcome(204, TRUE, Without(sp, id), [cat EXCEPT !.spools = Without(@, id)])

\* the order_hardware rows of every order with the hardware_item_id of the
\* lines of the item set to NULL: what db.delete(item) does to the rows of a
\* relationship that has no delete cascade
DetachOrderLines(ords, id) ==
    [o \in DOMAIN ords |->
        [ords[o] EXCEPT !.order_hardware =
            [i \in DOMAIN @ |->
                IF @[i].hardware_item_id = id /\ ~@[i].is_one_off
                THEN [@[i] EXCEPT !.hardware_item_id = 0] ELSE @[i]]]]

\* some project_hardware row names the item
InProjects(projs, id) ==
    \E p \in DOMAIN projs : \E i \in DOMAIN projs[p].hardware :
        projs[p].hardware[i].hardware_item_id = id

\* delete_hardware: 404; otherwise the item is deleted.  The order_hardware
\* rows of the item are detached; project_hardware.hardware_item_id is NOT
\* NULL, so detaching a project line fails the commit, which is raised again
delete_hardware(hw, cat, projs, ords, id) ==
    LET gone == [code |-> 204, committed |-> TRUE, hardware |-> Without(hw, id),
                 catalog |-> [cat EXCEPT !.hardware = Without(@, id)],
                 orders |-> DetachOrderLines(ords, id)]
    IN  IF id \notin DOMAIN hw
        THEN [code |-> 404, committed |-> FALSE, hardware |-> hw, catalog |-> cat,
              orders |-> ords]
        ELSE IF InProjects(projs, id)
        THEN [gone EXCEPT !.code = 500, !.committed = FALSE]
        ELSE gone

\* a completed print job consumes the spool
UsedByCompletedJob(jb, id) ==
    \E j \in DOMAIN jb :
        /\ jb[j].exists /\ jb[j].status = "completed"
        /\ \/ jb[j].spool_id = id
           \/ \E i \in DOMAIN jb[j].print_job_spools :
                  jb[j].print_job_spools[i].spool_id = id

\* a finished order has a line of the spool
SpoolOnFinishedOrder(ords, id) ==
    \E o \in DOMAIN ords :
        /\ ords[o].exists /\ ords[o].status = "finished"
        /\ \/ ords[o].spool_id = id
           \/ \E i \in DOMAIN ords[o].order_spools : ords[o].order_spools[i].spool_id = id

\* a finished order has a line of the hardware item
HardwareOnFinishedOrder(ords, id) ==
    \E o \in DOMAIN ords :
        /\ ords[o].exists /\ ords[o].status = "finished"
        /\ \E i \in DOMAIN ords[o].order_hardware :
              /\ ~ords[o].order_hardware[i].is_one_off
              /\ ords[o].order_hardware[i].hardware_item_id = id

\* the request, its answer and the tables it found
DeleteRequest(op, code, id, referenced) ==
    [op |-> op, code |-> code, id |-> id, referenced |-> referenced,
     stock_before |-> spools, hardware_before |-> hardware,
     catalog_before |-> catalog, orders_before |-> orders, jobs_before |-> jobs]

\* finished and open orders with a tracked line, with and without allocations
RefsOrderInputs ==
    {OrderCreate(st, 0, sid, sl, <<OrderHardware(h, 1, FALSE)>>) :
        st \in {"finished", "ordered"}, sid \in {0, 1},
        sl \in {<<>>, <<OrderSpool(1, 1, 1)>>}, h \in HardwareIds}

\* completed and failed print jobs, single-spool and multi-colour
RefsJobInputs ==
    [spool_id : {1}, filament_used_g : {1}, spools : {<<>>},
     status : {"completed", "failed"}, force : {TRUE}]
    \cup [spool_id : {0}, filament_used_g : {0}, spools : {<<PrintJobSpool(1, 1, 1)>>},
          status : {"completed"}, force : {TRUE}]

\* no project, or one that lists the last hardware item
RefsProjects ==
    {<<>>, [p \in ProjectIds |->
               Project(IF p = 1 THEN <<ProjectHardware(NumHardware, 1)>> ELSE <<>>, 0)]}

InitRefs ==
    /\ spools = [s \in SpoolIds |-> DefaultReserve + MaxGrams + 1]
    /\ settings = NoSettings
    /\ jobs = [j \in JobIds |-> NoJob]
    /\ products = [p \in ProductIds |-> NoProduct]
    /\ hardware = [h \in HardwareIds |-> MaxStock]
    /\ orders = [o \in OrderIds |-> NoOrder]
    /\ projects \in RefsProjects
    /\ nextId = [job |-> 1, order |-> 1, product |-> 1]
    /\ last = NoRequest
    /\ jobHist = [j \in JobIds |-> NoHist]
    /\ ordHist = [o \in OrderIds |-> NoOrdHist]
    /\ prodHist = [p \in ProductIds |-> NoProdHist]
    /\ catalog = PlainCatalog
    /\ pending = <<>>

DeleteSpool ==
    /\ \E id \in SpoolIds :
        LET r == delete_spool(spools, catalog, jobs, orders, id)
        IN /\ spools' = get_db(spools, r.spools, r.committed)
           /\ catalog' = get_db(catalog, r.catalog, r.committed)
           /\ last' = DeleteRequest("delete_spool", r.code, id,
                                    /\ id \in DOMAIN spools
                                    /\ \/ UsedByCompletedJob(jobs, id)
                                       \/ SpoolOnFinishedOrder(orders, id))
    /\ UNCHANGED <<settings, jobs, products, hardware, orders, projects, nextId,
                   jobHist, ordHist, prodHist, pending>>

DeleteHardware ==
    /\ \E id \in HardwareIds :
        LET r == delete_hardware(hardware, catalog, projects, orders, id)
        IN /\ hardware' = get_db(hardware, r.hardware, r.committed)
           /\ catalog' = get_db(catalog, r.catalog, r.committed)
           /\ orders' = get_db(orders, r.orders, r.committed)
           /\ last' = DeleteRequest("delete_hardware", r.code, id,
                                    /\ id \in DOMAIN hardware
                                    /\ HardwareOnFinishedOrder(orders, id))
    /\ UNCHANGED <<spools, settings, jobs, products, projects, nextId,
                   jobHist, ordHist, prodHist, pending>>

NextRefs ==
    \/ CreateOrderFrom(RefsOrderInputs)
    \/ CreatePrintJobFrom(RefsJobInputs)
    \/ DeleteSpool
    \/ DeleteHardware

SpecRefs == InitRefs /\ [][NextRefs]_vars

\* C27: a delete_spool or delete_hardware that names a resource a completed
\* print job's allocation or a finished order's line references is rejected,
\* and the resource, its stock and the referencing rows stay as they were
C27_ReferencedResourceKept ==
    (last.op \in {"delete_spool", "delete_hardware"} /\ last.referenced)
        => /\ last.code \notin {200, 204}
           /\ spools = last.stock_before
           /\ hardware = last.hardware_before
           /\ catalog = last.catalog_before
           /\ orders = last.orders_before
           /\ jobs = last.jobs_before

\* delete_spool has refused a spool that a completed multi-colour job consumes
C27_Witness ==
    /\ last.op = "delete_spool" /\ last.referenced /\ last.code = 400
    /\ SpoolJobRows(jobs, last.id) # {}
    /\ last.id \in DOMAIN spools

\* delete_hardware was asked for an item on a line of a finished order
C27_HardwareReached ==
    /\ last.op = "delete_hardware" /\ last.referenced
    /\ HardwareOnFinishedOrder(last.orders_before, last.id)

-----------------------------------------------------------------------------
(* Positions of the allocations of print jobs and orders *)

\* a list that fills the six positions, and one entry more than that
FullList == [i \in 1..MaxPosition |-> PrintJobSpool(1, 1, i)]
OverlongList == [i \in 1..MaxPosition + 1 |-> PrintJobSpool(1, 1, i)]
FullOrderList == [i \in 1..MaxPosition |-> OrderSpool(1, 1, i)]

PosJobInputs ==
    [spool_id : {0}, filament_used_g : {0},
     spools : {<<PrintJobSpool(1, 1, 1)>>, ReversedList, FullList, OverlongList,
               DuplicatePositionList, <<PrintJobSpool(1, 1, MaxPosition + 1)>>},
     status : {"completed", "failed"}, force : {TRUE}]

PosUpdateInputs ==
    {PrintJobUpdate(st, sl, fg, si, TRUE) :
        st \in NoStatus \cup Given({"completed"}),
        sl \in Given({<<PrintJobSpool(NumSpools, 1, 2)>>, ReversedList, FullList,
                      DuplicatePositionList}),
        fg \in NoneSet, si \in NoneSet}

PosOrderInputs ==
    {OrderCreate("ordered", 0, 0, sl, <<>>) :
        sl \in {<<>>, <<OrderSpool(1, 1, 1)>>, FullOrderList, DuplicateOrderPositions}}

PosOrderUpdateInputs ==
    {OrderUpdate(st, [set |-> FALSE, value |-> 0], [set |-> FALSE, value |-> 0], sl,
                 [set |-> FALSE, value |-> <<>>]) :
        st \in NoStatus,
        sl \in Given({<<>>, <<OrderSpool(NumSpools, 1, 2)>>, FullOrderList,
                      DuplicateOrderPositions})}

\* a create_print_job body the schema refuses: the handler is not entered
RefusePrintJobCreate ==
    /\ \E data \in PosJobInputs :
        /\ ~PrintJobCreateValid(data)
        /\ last' = [Request("create_print_job", Rejected(422, spools, jobs),
                            nextId.job, data.force, NoUpdate)
                        EXCEPT !.duplicate = ~DistinctPositions(data.spools)]
    /\ UNCHANGED <<spools, settings, jobs, products, nextId, jobHist, others>>

NextPos ==
    \/ CreatePrintJobFrom(PosJobInputs)
    \/ RefusePrintJobCreate
    \/ UpdatePrintJobFrom(PosUpdateInputs)
    \/ CreateOrderFrom(PosOrderInputs)
    \/ UpdateOrderFrom(PosOrderUpdateInputs)

SpecPos == InitOrd /\ [][NextPos]_vars

\* at most six rows, each on a position of 1..6, no two on one position
WellPlaced(rows) ==
    /\ Len(rows) <= MaxPosition
    /\ \A i \in 1..Len(rows) : rows[i].position \in 1..MaxPosition
    /\ DistinctPositions(rows)

\* C28: every print job and every order has at most six allocations, on
\* distinct positions of 1..6; a create or an update whose list has two
\* entries on one position is rejected and leaves the stock and the
\* allocations it found
C28_PositionsBoundedUnique ==
    /\ \A j \in DOMAIN jobs : WellPlaced(jobs[j].print_job_spools)
    /\ \A o \in DOMAIN orders : WellPlaced(orders[o].order_spools)
    /\ (last.op \in {"create_print_job", "update_print_job"} /\ last.duplicate)
          => /\ last.code \in {400, 422, 500}
             /\ spools = last.stock_before
             /\ last.id \in DOMAIN jobs => jobs[last.id] = last.job_before
    /\ (last.op \in {"create_order", "update_order"} /\ last.duplicate)
          => /\ last.code = 400
             /\ spools = last.spools_before
             /\ last.id \in DOMAIN orders => orders[last.id] = last.order_before

\* an update with two entries on one position met a completed job that has
\* allocations
C28_Witness ==
    /\ last.op = "update_print_job" /\ last.duplicate
    /\ last.job_before.status = "completed"
    /\ last.job_before.print_job_spools # <<>>
    /\ last.code = 500

\* an order carries six allocations
C28_FullReached ==
    \E o \in DOMAIN orders : Len(orders[o].order_spools) = MaxPosition

-----------------------------------------------------------------------------
(* orders.py: cost snapshots and get_order_profit.  Prices are whole units  *)
(* of money, snapshots whole ten-thousandths, the costs of the breakdown    *)
(* fractions that get_order_profit rounds to hundredths.                    *)

\* the sum of a list of numbers
RECURSIVE SumSeq(_)
SumSeq(ns) == IF ns = <<>> THEN 0 ELSE Head(ns) + SumSeq(Tail(ns))

\* _compute_order_cost_breakdown: the filament cost and the hardware cost.  An
\* order with allocations takes grams x cost_per_kg_snapshot / 1000 of each; an
\* order without takes its grams (snapshot, else the project's) times the
\* present purchase_price / total_weight_g of its spool
_compute_order_cost_breakdown(order, cat, projs) ==
    LET GramsCost(os) == os.filament_grams * os.cost_per_kg_snapshot
        LineCost(oh) == oh.unit_cost_snapshot * oh.quantity
        filament_grams ==
            IF order.filament_grams_snapshot # 0 THEN order.filament_grams_snapshot
            ELSE IF order.project_id \in DOMAIN projs /\ projs[order.project_id].exists
            THEN projs[order.project_id].filament_grams
            ELSE 0
        legacy == /\ order.spool_id \in DOMAIN cat.spools
                  /\ filament_grams > 0
                  /\ cat.spools[order.spool_id].purchase_price # 0
                  /\ cat.spools[order.spool_id].total_weight_g > 0
    IN  [filament_cost |->
            IF order.order_spools # <<>>
            THEN [num |-> SumSeq([i \in DOMAIN order.order_spools |-> GramsCost(order.order_spools[i])]),
                  den |-> GramsPerKg * FourDecimals]
            ELSE IF legacy
            THEN [num |-> filament_grams * cat.spools[order.spool_id].purchase_price,
                  den |-> cat.spools[order.spool_id].total_weight_g]
            ELSE [num |-> 0, den |-> 1],
         hardware_cost |->
            [num |-> SumSeq([i \in DOMAIN order.order_hardware |-> LineCost(order.order_hardware[i])]), den |-> FourDecimals]]

\* round(num / den, 2) in hundredths; a denominator that holds the hundred is
\* divided by it, which keeps the products small
ToHundredths(f) ==
    IF f.den % TwoDecimals = 0
    THEN RoundHalfEven(f.num, f.den \div TwoDecimals)
    ELSE RoundHalfEven(f.num * TwoDecimals, f.den)

\* get_order_profit: the two costs of the breakdown, round(..., 2), in
\* hundredths
get_order_profit(ords, cat, projs, id) ==
    IF id \notin DOMAIN ords \/ ~ords[id].exists
    THEN [code |-> 404, filament_cost |-> 0, hardware_cost |-> 0]
    ELSE LET bd == _compute_order_cost_breakdown(ords[id], cat, projs)
         IN [code |-> 200,
             filament_cost |-> ToHundredths(bd.filament_cost),
             hardware_cost |-> ToHundredths(bd.hardware_cost)]

\* update_hardware: 404; otherwise the fields of the request are assigned
update_hardware(cat, id, data) ==
    IF id \notin DOMAIN cat.hardware
    THEN [code |-> 404, committed |-> FALSE, catalog |-> cat]
    ELSE [code |-> 200, committed |-> TRUE,
          catalog |-> [cat EXCEPT !.hardware[id].purchase_price =
                                       IF data.purchase_price.set
                                       THEN data.purchase_price.value ELSE @]]

CostPrices == {2, 4}
CostCapacity == 3
CostGrams == 2

\* a new price, a new capacity
PriceUpdateInputs ==
    {SpoolUpdate(NoField, p, NoField) : p \in Given(CostPrices)}
    \cup {SpoolUpdate(NoField, NoField, t) : t \in Given({2 * CostCapacity})}

HardwareUpdateInputs == [purchase_price : Given(CostPrices)]

\* a one-off line that costs one unit of money
OneOffLine == [OrderHardware(0, 1, TRUE) EXCEPT !.one_off_cost = 1]

\* an order with an allocation on the priced spool or on the spool without
\* capacity, and a legacy order with a project and a spool
CostOrderInputs ==
    {OrderCreate("ordered", 0, 0, <<OrderSpool(s, CostGrams, 1)>>, hl) :
        s \in SpoolIds, hl \in {<<OrderHardware(1, MaxQty, FALSE)>>, <<OneOffLine>>}}
    \cup {OrderCreate("ordered", 1, 1, <<>>, <<OrderHardware(1, MaxQty, FALSE)>>)}

\* the same allocation list again, and a change of status alone
CostOrderUpdateInputs ==
    {OrderUpdate([set |-> FALSE, value |-> "none"], NoField, NoField,
                 [set |-> TRUE, value |-> <<OrderSpool(1, CostGrams, 1)>>],
                 [set |-> FALSE, value |-> <<>>]),
     OrderUpdate([set |-> TRUE, value |-> "printed"], NoField, NoField,
                 [set |-> FALSE, value |-> <<>>], [set |-> FALSE, value |-> <<>>])}

\* the first spool was bought for 2 with a capacity of 3 g, the last one came
\* from an upload with a total weight of 0; the first hardware item was bought
\* for 2 in a pack of 3
InitCost ==
    /\ spools = [s \in SpoolIds |-> IF s = 1 THEN CostCapacity ELSE 0]
    /\ settings = NoSettings
    /\ jobs = [j \in JobIds |-> NoJob]
    /\ products = [p \in ProductIds |-> NoProduct]
    /\ hardware = [h \in HardwareIds |-> MaxStock]
    /\ orders = [o \in OrderIds |-> NoOrder]
    /\ projects = [p \in ProjectIds |-> Project(<<>>, IF p = 1 THEN CostGrams ELSE 0)]
    /\ nextId = [job |-> 1, order |-> 1, product |-> 1]
    /\ last = NoRequest
    /\ jobHist = [j \in JobIds |-> NoHist]
    /\ ordHist = [o \in OrderIds |-> NoOrdHist]
    /\ prodHist = [p \in ProductIds |-> NoProdHist]
    /\ catalog =
        [spools |-> [s \in SpoolIds |->
                        IF s = 1 THEN Spool(0, 2, CostCapacity) ELSE Spool(0, 2, 0)],
         hardware |-> [h \in HardwareIds |-> HardwareItem(2, 3)],
         usage_count |-> 0]
    /\ pending = <<>>

UpdateHardware ==
    /\ \E id \in HardwareIds, data \in HardwareUpdateInputs :
        LET r == update_hardware(catalog, id, data)
        IN /\ catalog' = get_db(catalog, r.catalog, r.committed)
           /\ last' = SpoolRequest("update_hardware", r, id, 0, FALSE, FALSE)
    /\ UNCHANGED <<spools, pending>>
    /\ UNCHANGED notSpools

GetOrderProfit ==
    /\ \E id \in OrderIds :
        LET r == get_order_profit(orders, catalog, projects, id)
        IN last' = [op |-> "get_order_profit", code |-> r.code, id |-> id,
                    filament_cost |-> r.filament_cost, hardware_cost |-> r.hardware_cost]
    /\ UNCHANGED <<spools, catalog, pending>>
    /\ UNCHANGED notSpools

NextCost ==
    \/ CreateOrderFrom(CostOrderInputs)
    \/ UpdateOrderFrom(CostOrderUpdateInputs)
    \/ UpdateSpoolFrom(PriceUpdateInputs)
    \/ UpdateHardware
    \/ GetOrderProfit

SpecCost == InitCost /\ [][NextCost]_vars

\* the allocation of the order of the last request on position p, before and
\* after the request
RowBefore(p) ==
    {last.order_before.order_spools[i] : i \in {k \in DOMAIN last.order_before.order_spools :
                                                  last.order_before.order_spools[k].position = p}}
RowAfter(p) ==
    {orders[last.id].order_spools[i] : i \in {k \in DOMAIN orders[last.id].order_spools :
                                                orders[last.id].order_spools[k].position = p}}

\* C29: the cost snapshot of an allocation is taken when create_order makes
\* the allocation, as the price of the spool by its capacity (0 without
\* capacity) rounded to four decimals, and no later update_order changes the
\* value of an allocation it finds again with the same spool and grams
C29_SnapshotCapturedOnce ==
    /\ OrderCreated
          => \A i \in DOMAIN orders[last.id].order_spools :
                orders[last.id].order_spools[i].cost_per_kg_snapshot
                    = cost_per_kg(catalog.spools[orders[last.id].order_spools[i].spool_id])
    /\ OrderUpdated
          => \A p \in 1..MaxPosition : \A b \in RowBefore(p), a \in RowAfter(p) :
                (a.spool_id = b.spool_id /\ a.filament_grams = b.filament_grams)
                    => a.cost_per_kg_snapshot = b.cost_per_kg_snapshot

\* create_order has taken a snapshot that rounding has touched
C29_Witness ==
    /\ OrderCreated
    /\ \E i \in DOMAIN orders[last.id].order_spools :
          /\ orders[last.id].order_spools[i].cost_per_kg_snapshot > 0
          /\ orders[last.id].order_spools[i].cost_per_kg_snapshot * CostCapacity
                # 2 * GramsPerKg * FourDecimals

\* C30: a change of the price or the capacity of a spool or of a hardware
\* item changes the filament_cost and the hardware_cost that get_order_profit
\* answers for no order
C30_ProfitFromSnapshots ==
    (last.op \in {"update_spool", "update_hardware"} /\ last.code = 200)
        => \A o \in DOMAIN orders :
              orders[o].exists
                  => get_order_profit(orders, catalog, projects, o)
                        = get_order_profit(orders, last.catalog_before, projects, o)

\* the price of the spool of an order with an allocation was changed
C30_Witness ==
    /\ last.op = "update_spool" /\ last.code = 200
    /\ catalog # last.catalog_before
    /\ \E o \in DOMAIN orders :
          /\ orders[o].exists /\ orders[o].order_spools # <<>>
          /\ orders[o].order_spools[1].spool_id = last.id
          /\ get_order_profit(orders, catalog, projects, o).filament_cost > 0

-----------------------------------------------------------------------------
(* services/cost_calculator.py: calculate_cost.  The floats of the code are *)
(* exact fractions here; money in the settings is held in hundredths.       *)

RECURSIVE GCD(_, _)
GCD(a, b) == IF b = 0 THEN a ELSE GCD(b, a % b)

\* the fraction n / d in lowest terms
Frac(n, d) == LET g == GCD(n, d) IN [num |-> n \div g, den |-> d \div g]

FracAdd(f, g) == Frac(f.num * g.den + g.num * f.den, f.den * g.den)

FracMul(f, g) ==
    LET a == Frac(f.num, g.den)
        b == Frac(g.num, f.den)
    IN Frac(a.num * b.num, a.den * b.den)

MinutesPerHour == 60
Percent == 100

\* round(x, 2) in hundredths.  A float that stands for a value half-way
\* between two hundredths lies a little under it or a little over it, and it
\* is that float the code rounds: both neighbours are answers the code can give
round2(f) ==
    LET n == f.num * TwoDecimals
        q == n \div f.den
        r == n % f.den
    IN IF 2 * r < f.den THEN {q}
       ELSE IF 2 * r > f.den THEN {q + 1}
       ELSE {q, q + 1}

\* the settings row calculate_cost reads; the rates and the fee in hundredths
CostSettings(wattage, rate, hourly, depreciation, fee, margin) ==
    [printer_wattage |-> wattage, electricity_rate_kwh |-> rate, hourly_rate |-> hourly,
     machine_depreciation_rate |-> depreciation, fixed_fee_per_order |-> fee,
     profit_margin_percent |-> margin]

\* the answers of a calculation whose six amounts are given unrounded
CostBreakdown(filament, electricity, time, depreciation, fixed_fee, subtotal, profit, total) ==
    [filament_cost : round2(filament), electricity_cost : round2(electricity),
     time_cost : round2(time), depreciation_cost : round2(depreciation),
     fixed_fee : round2(fixed_fee), subtotal : round2(subtotal),
     profit : round2(profit), total : round2(total)]

\* calculate_cost with a subtotal added up from the rounded amounts
calculate_cost_rounded_early(grams, print_time_minutes, per_kg, s) ==
    LET hours == Frac(print_time_minutes, MinutesPerHour)
        filament_cost == FracMul(Frac(grams, GramsPerKg), Frac(per_kg, 1))
        electricity_cost ==
            FracMul(FracMul(hours, Frac(s.printer_wattage, GramsPerKg)),
                    Frac(s.electricity_rate_kwh, TwoDecimals))
        time_cost == FracMul(hours, Frac(s.hourly_rate, TwoDecimals))
        depreciation_cost == FracMul(hours, Frac(s.machine_depreciation_rate, TwoDecimals))
        fixed_fee == Frac(s.fixed_fee_per_order, TwoDecimals)
        Rounded(f) == Frac(CHOOSE q \in round2(f) : \A p \in round2(f) : q <= p, TwoDecimals)
        subtotal == FracAdd(FracAdd(FracAdd(FracAdd(Rounded(filament_cost),
                        Rounded(electricity_cost)), Rounded(time_cost)),
                        Rounded(depreciation_cost)), fixed_fee)
        profit == FracMul(subtotal, Frac(s.profit_margin_percent, Percent))
        total == FracAdd(subtotal, profit)
    IN CostBreakdown(filament_cost, electricity_cost, time_cost, depreciation_cost,
                     fixed_fee, subtotal, profit, total)

\* calculate_cost: the amounts are computed unrounded, and each is rounded in
\* the answer
calculate_cost(grams, print_time_minutes, per_kg, s) ==
    LET hours == Frac(print_time_minutes, MinutesPerHour)
        filament_cost == FracMul(Frac(grams, GramsPerKg), Frac(per_kg, 1))
        electricity_cost ==
            FracMul(FracMul(hours, Frac(s.printer_wattage, GramsPerKg)),
                    Frac(s.electricity_rate_kwh, TwoDecimals))
        time_cost == FracMul(hours, Frac(s.hourly_rate, TwoDecimals))
        depreciation_cost == FracMul(hours, Frac(s.machine_depreciation_rate, TwoDecimals))
        fixed_fee == Frac(s.fixed_fee_per_order, TwoDecimals)
        subtotal == FracAdd(FracAdd(FracAdd(FracAdd(filament_cost, electricity_cost),
                        time_cost), depreciation_cost), fixed_fee)
        profit == FracMul(subtotal, Frac(s.profit_margin_percent, Percent))
        total == FracAdd(subtotal, profit)
    IN CostBreakdown(filament_cost, electricity_cost, time_cost, depreciation_cost,
                     fixed_fee, subtotal, profit, total)

\* 1 g at 5 per kg is half a hundredth; 100 g at 20 per kg is the case of the
\* documentation
EstimateGrams == {0, 1, 100}
EstimateMinutes == {0, 40, 60}
EstimateCostsPerKg == {5, 20}

\* the settings of a new installation (200 W, 0.12 per kWh, 2.00 an hour, 0.50
\* of depreciation, a fee of 5.00, a margin of 5 percent) and others
EstimateSettings ==
    {CostSettings(200, 12, h, d, f, mg) :
        h \in {100, 200}, d \in {50, 100}, f \in {0, 500}, mg \in {0, 5, 50}}

InitCalc ==
    /\ spools = [s \in SpoolIds |-> 0]
    /\ settings = NoSettings
    /\ jobs = [j \in JobIds |-> NoJob]
    /\ products = [p \in ProductIds |-> NoProduct]
    /\ hardware = [h \in HardwareIds |-> 0]
    /\ orders = [o \in OrderIds |-> NoOrder]
    /\ projects = <<>>
    /\ nextId = [job |-> 1, order |-> 1, product |-> 1]
    /\ last = NoRequest
    /\ jobHist = [j \in JobIds |-> NoHist]
    /\ ordHist = [o \in OrderIds |-> NoOrdHist]
    /\ prodHist = [p \in ProductIds |-> NoProdHist]
    /\ catalog = PlainCatalog
    /\ pending = <<>>

\* quick_estimate: the calculation for the amounts of the request
QuickEstimate ==
    /\ \E grams \in EstimateGrams, minutes \in EstimateMinutes,
          cost \in EstimateCostsPerKg, s \in EstimateSettings :
        \E r \in calculate_cost(grams, minutes, cost, s) :
            last' = [op |-> "calculate_cost", code |-> 200, grams |-> grams,
                     print_time_minutes |-> minutes, cost_per_kg |-> cost,
                     settings |-> s, result |-> r]
    /\ UNCHANGED <<spools, settings, jobs, products, nextId, jobHist, others>>

NextCalc == QuickEstimate

SpecCalc == InitCalc /\ [][NextCalc]_vars

Calculated == last.op = "calculate_cost"

\* r is n / d rounded to a whole number: no whole number is nearer
Nearest(r, n, d) ==
    /\ 2 * (r * d - n) <= d
    /\ 2 * (n - r * d) <= d

\* an hour of a kilowatt in minutes of a watt
KilowattHour == MinutesPerHour * GramsPerKg

\* the subtotal of the last calculation in 1 / 60000 of a hundredth: the
\* material, the electricity, the time, the depreciation and the fee
SubtotalParts ==
    LET s == last.settings
    IN last.grams * last.cost_per_kg * (KilowattHour \div (GramsPerKg \div TwoDecimals))
       + last.print_time_minutes * s.printer_wattage * s.electricity_rate_kwh
       + last.print_time_minutes * s.hourly_rate * GramsPerKg
       + last.print_time_minutes * s.machine_depreciation_rate * GramsPerKg
       + s.fixed_fee_per_order * KilowattHour

\* C31: calculate_cost answers material cost = amount / 1000 x unit cost,
\* electricity = hours x wattage / 1000 x rate, time = hours x hourly rate,
\* depreciation = hours x depreciation rate, subtotal = their sum + fixed fee,
\* profit = subtotal x margin / 100 and total = subtotal + profit, each taken
\* from the unrounded amounts and rounded to two decimals in the answer; 100 g
\* at 20 per kg give 2.00, and 60 minutes at 200 W and 0.12 per kWh give 0.02
C31_CostFormulas ==
    Calculated =>
        LET s == last.settings
            r == last.result
            m == last.print_time_minutes
            margin == Frac(s.profit_margin_percent, Percent)
        IN /\ Nearest(r.filament_cost, last.grams * last.cost_per_kg,
                      GramsPerKg \div TwoDecimals)
           /\ Nearest(r.electricity_cost,
                      m * s.printer_wattage * s.electricity_rate_kwh, KilowattHour)
           /\ Nearest(r.time_cost, m * s.hourly_rate, MinutesPerHour)
           /\ Nearest(r.depreciation_cost, m * s.machine_depreciation_rate,
                      MinutesPerHour)
           /\ r.fixed_fee = s.fixed_fee_per_order
           /\ Nearest(r.subtotal, SubtotalParts, KilowattHour)
           /\ Nearest(r.profit, SubtotalParts * margin.num, KilowattHour * margin.den)
           /\ Nearest(r.total, SubtotalParts * (margin.den + margin.num),
                      KilowattHour * margin.den)
           /\ (last.grams = 100 /\ last.cost_per_kg = 20) => r.filament_cost = 200
           /\ (m = 60 /\ s.printer_wattage = 200 /\ s.electricity_rate_kwh = 12)
                => r.electricity_cost = 2

\* a calculation whose rounded amounts add up to more than its subtotal
C31_Witness ==
    /\ Calculated
    /\ last.result.filament_cost + last.result.electricity_cost + last.result.time_cost
         + last.result.depreciation_cost + last.result.fixed_fee > last.result.subtotal
    /\ last.result.profit > 0

\* the two cases of the documentation
C31_ExamplesReached ==
    /\ Calculated
    /\ last.grams = 100 /\ last.cost_per_kg = 20 /\ last.print_time_minutes = 60
    /\ last.result.filament_cost = 200 /\ last.result.electricity_cost = 2

-----------------------------------------------------------------------------
(* orders.py, services/webhook_notifier.py: the order_status_change         *)
(* notification.  pending holds the background tasks of the answered        *)
(* requests.                                                                *)

\* a settings row with the webhook columns set
WebhookSettings(enabled, url, events) ==
    [AppSettings(TRUE, DefaultReserve) EXCEPT !.webhook_enabled = enabled,
                                              !.webhook_url = url,
                                              !.webhook_events = events]

\* _send_webhook: False for a url that is not allowed and for a post that
\* fails, whatever the failure; it reads and writes no row
_send_webhook(allowed, posted) == allowed /\ posted

\* the webhook switched on for the event, switched on for another event,
\* switched off, and no settings row
NotifySettings ==
    {WebhookSettings(TRUE, TRUE, {"order_due", "order_status_change"}),
     WebhookSettings(TRUE, TRUE, {"order_due"}),
     WebhookSettings(FALSE, TRUE, {"order_status_change"}),
     NoSettings}

NotifyOrderInputs ==
    {OrderCreate(st, 0, 0, <<>>, <<OrderHardware(1, MaxQty, FALSE)>>) :
        st \in {"ordered", "finished"}}

\* a status alone, nothing at all, and a status with a list that names a
\* hardware item that does not exist
NotifyUpdateInputs ==
    {OrderUpdate(st, NoField, NoField, [set |-> FALSE, value |-> <<>>],
                 [set |-> FALSE, value |-> <<>>]) :
        st \in NoStatus \cup Given({"ordered", "finished", "sold"})}
    \cup {OrderUpdate([set |-> TRUE, value |-> "printed"], NoField, NoField,
                      [set |-> FALSE, value |-> <<>>],
                      [set |-> TRUE, value |-> MissingHardwareList])}

\* the first hardware item is short of what the order needs in one of the
\* two initial stocks
InitNotify ==
    /\ spools = [s \in SpoolIds |-> DefaultReserve + MaxGrams + 1]
    /\ settings \in NotifySettings
    /\ jobs = [j \in JobIds |-> NoJob]
    /\ products = [p \in ProductIds |-> NoProduct]
    /\ hardware \in {[h \in HardwareIds |-> q] : q \in InitialStock}
    /\ orders = [o \in OrderIds |-> NoOrder]
    /\ projects = <<>>
    /\ nextId = [job |-> 1, order |-> 1, product |-> 1]
    /\ last = NoRequest
    /\ jobHist = [j \in JobIds |-> NoHist]
    /\ ordHist = [o \in OrderIds |-> NoOrdHist]
    /\ prodHist = [p \in ProductIds |-> NoProdHist]
    /\ catalog = PlainCatalog
    /\ pending = <<>>

\* the server runs the oldest task: send_order_status_change_webhook calls
\* _send_webhook
SendWebhook ==
    /\ pending # <<>>
    /\ \E allowed \in BOOLEAN, posted \in BOOLEAN :
        last' = [op |-> "send_order_status_change_webhook", code |-> 0,
                 id |-> Head(pending).order_id, task |-> Head(pending),
                 delivered |-> _send_webhook(allowed, posted),
                 orders_before |-> orders, stock_before |-> hardware,
                 spools_before |-> spools]
    /\ pending' = Tail(pending)
    /\ UNCHANGED <<spools, hardware, orders, nextId, ordHist>>
    /\ UNCHANGED notOrders

NextNotify ==
    \/ CreateOrderFrom(NotifyOrderInputs)
    \/ UpdateOrderFrom(NotifyUpdateInputs)
    \/ SendWebhook

SpecNotify == InitNotify /\ [][NextNotify]_vars

\* the settings row asks for the notification
WebhookOn ==
    /\ settings.exists /\ settings.webhook_enabled /\ settings.webhook_url
    /\ "order_status_change" \in settings.webhook_events

\* C32: update_order adds an order_status_change notification only when its
\* transaction is committed (a refused or rolled back update adds none) and
\* only when the status of the order has changed, and then the stored order
\* has the new status; running a task, delivered or not, changes no order, no
\* hardware stock and no spool
C32_NotifiedAfterCommit ==
    /\ last.op = "update_order" =>
          IF last.code = 200 /\ last.old_status # last.new_status /\ WebhookOn
          THEN /\ pending = Append(last.pending_before,
                                   StatusChangeTask(last.id, last.old_status,
                                                    last.new_status))
               /\ orders[last.id].status = last.new_status
               /\ last.order_before.status = last.old_status
          ELSE pending = last.pending_before
    /\ \A i \in DOMAIN pending : pending[i].old_status # pending[i].new_status
    /\ last.op = "send_order_status_change_webhook" =>
          /\ orders = last.orders_before
          /\ hardware = last.stock_before
          /\ spools = last.spools_before

\* a committed change of status has added its notification
C32_Witness ==
    /\ last.op = "update_order" /\ last.code = 200
    /\ pending # <<>>
    /\ pending[Len(pending)] = StatusChangeTask(last.id, last.old_status, last.new_status)
    /\ last.old_status # last.new_status

\* an update that asked for another status was refused and added nothing
C32_RefusedReached ==
    /\ last.op = "update_order" /\ last.code # 200
    /\ last.old_status # last.new_status /\ WebhookOn
    /\ pending = last.pending_before

\* a delivery has failed
C32_FailedDeliveryReached ==
    /\ last.op = "send_order_status_change_webhook" /\ ~last.delivered
    /\ orders[last.id].status = last.task.new_status

-----------------------------------------------------------------------------
(* print_jobs.py, database.py: two create_print_job requests at a time.     *)
(* Each request has its own session (SessionLocal per request, autoflush    *)
(* off).  The session reads a Spool row once and keeps the object: later    *)
(* queries of the request return it as it was read.  The commit writes      *)
(* the attributes the request has changed, with the values it has computed. *)

MaxInFlight == 2

\* a commit that takes what the session has deducted from the stored rows
flush_deductions(stored, read, session) ==
    [s \in DOMAIN stored |-> stored[s] - (read[s] - session[s])]

\* the commit of a session: an UPDATE for every row the session has changed
flush_changes(stored, read, session) ==
    [s \in DOMAIN stored |-> IF session[s] # read[s] THEN session[s] ELSE stored[s]]

RaceJobInputs ==
    [spool_id : {0}, filament_used_g : {0},
     spools : {<<PrintJobSpool(s, g, 1)>> : s \in SpoolIds, g \in 1..MaxGrams},
     status : {"completed"}, force : BOOLEAN]
    \cup
    [spool_id : SpoolIds, filament_used_g : {MaxGrams}, spools : {<<>>},
     status : {"completed"}, force : {FALSE}]

InitRace ==
    /\ spools \in {w \in [SpoolIds -> InitialWeights] :
                        \A a, b \in SpoolIds : a <= b => w[a] <= w[b]}
    /\ settings \in InitialSettings
    /\ jobs = [j \in OrderJobIds |-> NoJob]
    /\ products = [p \in ProductIds |-> NoProduct]
    /\ hardware = [h \in HardwareIds |-> 1]
    /\ orders = [o \in OrderIds |-> NoOrder]
    /\ projects = <<>>
    /\ nextId = [job |-> 1, order |-> 1, product |-> 1]
    /\ last = NoRequest
    /\ jobHist = [j \in OrderJobIds |-> NoHist]
    /\ ordHist = [o \in OrderIds |-> NoOrdHist]
    /\ prodHist = [p \in ProductIds |-> NoProdHist]
    /\ catalog = PlainCatalog
    /\ pending = <<>>

\* create_print_job up to the validation: the request reads the spools and
\* is refused, or goes on with what it has read
ValidatePrintJob ==
    /\ Len(pending) < MaxInFlight
    /\ nextId.job + Len(pending) \in OrderJobIds
    /\ \E data \in RaceJobInputs :
        LET r == create_print_job(spools, settings, jobs, nextId.job, data)
        IN IF r.code = 201
           THEN /\ pending' = Append(pending, [data |-> data, read |-> spools])
                /\ last' = [op |-> "validate_print_job", code |-> 0, id |-> 0,
                            force |-> data.force, read |-> spools]
           ELSE /\ pending' = pending
                /\ last' = Request("create_print_job", r, nextId.job, data.force, NoUpdate)
    /\ UNCHANGED <<spools, settings, jobs, products, nextId, jobHist>>
    /\ UNCHANGED <<hardware, orders, projects, ordHist, prodHist, catalog>>

\* create_print_job from the validation on, for any of the requests on their
\* way: the job is added, the deduction is made on the rows as read and the
\* session is committed
CommitPrintJob ==
    /\ \E i \in DOMAIN pending :
        LET p == pending[i]
            id == nextId.job
            r == create_print_job(p.read, settings, jobs, id, p.data)
        IN /\ spools' = flush_changes(spools, p.read, r.spools)
           /\ jobs' = r.jobs
           /\ nextId' = [nextId EXCEPT !.job = @ + 1]
           /\ pending' = [k \in 1..(Len(pending) - 1) |->
                             IF k < i THEN pending[k] ELSE pending[k + 1]]
           /\ last' = [read |-> p.read] @@
                      Request("create_print_job", r, id, p.data.force, NoUpdate)
           /\ jobHist' = [Touch(jobHist) EXCEPT ![id] =
                             [created_status |-> p.data.status,
                              stock_before_create |-> spools,
                              untouched |-> TRUE,
                              deducts_at_create |-> r.deducts,
                              deducted_by_update |-> FALSE,
                              updates |-> 0,
                              read |-> p.read,
                              force |-> p.data.force]]
    /\ UNCHANGED <<settings, products>>
    /\ UNCHANGED <<hardware, orders, projects, ordHist, prodHist, catalog>>

NextRace == ValidatePrintJob \/ CommitPrintJob

SpecRace == InitRace /\ [][NextRace]_vars

\* C33: an unforced create_print_job is validated against the remaining
\* weights its session has read, entry by entry, and its commit writes the
\* weights deducted from those it has read: a request that read the weights
\* before another request committed is not validated again, so that two
\* requests, each valid alone, are both committed with more filament than
\* remaining - reserve_g between them
C33_ValidatedAgainstRead ==
    Created =>
        LET job == jobs[last.id]
            allocs == Allocations(job)
        IN /\ (~last.force /\ prevent_of(settings))
                => \A i \in 1..Len(allocs) :
                      last.read[allocs[i].spool_id] - reserve_of(settings)
                          - allocs[i].filament_used_g >= 0
           /\ \A s \in SpoolIds :
                spools[s] = IF ClampRule(last.read[s], SumOn(allocs, s)) # last.read[s]
                            THEN ClampRule(last.read[s], SumOn(allocs, s))
                            ELSE last.stock_before[s]

\* two unforced jobs were validated against the same remaining weight of a
\* spool, each within remaining - reserve_g, and both are committed with more
\* than that between them
C33_Witness ==
    /\ Created /\ prevent_of(settings)
    /\ \E j, k \in OrderJobIds, s \in SpoolIds :
        /\ j < k /\ k = last.id
        /\ jobs[j].exists /\ jobs[k].exists
        /\ ~jobHist[j].force /\ ~jobHist[k].force
        /\ jobHist[j].read[s] = jobHist[k].read[s]
        /\ SumOn(Allocations(jobs[j]), s) > 0
        /\ SumOn(Allocations(jobs[k]), s) > 0
        /\ SumOn(Allocations(jobs[j]), s) + SumOn(Allocations(jobs[k]), s)
              > jobHist[j].read[s] - reserve_of(settings)

\* the commit of the second of them has written over the first deduction
C33_LostUpdateReached ==
    /\ C33_Witness
    /\ \E s \in SpoolIds :
        /\ last.stock_before[s] < last.read[s]
        /\ spools[s] = last.read[s] - SumOn(Allocations(jobs[last.id]), s)

-----------------------------------------------------------------------------
(* services/spool_validator.py: the pairs of a batch are checked one by one *)

\* the answer for the batch that holds the i-th pair of the last batch alone
Alone(i) == validate_spool_inventory(last.stock_before, settings, <<last.spool_usages[i]>>)

RECURSIVE Concat(_)
Concat(lists) == IF lists = <<>> THEN <<>> ELSE Head(lists) \o Concat(Tail(lists))

\* C34: validate_spool_inventory checks every pair of a batch by itself
\* against the stored remaining weight of its spool: the batch is valid exactly
\* when every pair alone is, its shortages are those of the pairs alone, in
\* order, whatever the pairs of one spool add up to, and no remaining weight
\* is changed
C34_PairsCheckedAlone ==
    Validated =>
        /\ last.result.is_valid = \A i \in DOMAIN last.spool_usages : Alone(i).is_valid
        /\ last.result.shortages
              = Concat([i \in DOMAIN last.spool_usages |-> Alone(i).shortages])
        /\ spools = last.stock_before

\* a valid batch that names a spool twice and asks more of it in all than
\* remaining - reserve_g
C34_Witness ==
    /\ Validated /\ prevent_of(settings)
    /\ last.result.is_valid
    /\ \E i, j \in DOMAIN last.spool_usages :
        /\ i < j
        /\ last.spool_usages[i].spool_id = last.spool_usages[j].spool_id
        /\ last.spool_usages[i].spool_id \in SpoolIds
        /\ last.spool_usages[i].filament_used_g > 0
        /\ last.spool_usages[j].filament_used_g > 0
        /\ last.spool_usages[i].filament_used_g + last.spool_usages[j].filament_used_g
              > spools[last.spool_usages[i].spool_id] - reserve_of(settings)

-----------------------------------------------------------------------------
(* orders.py: update_order with a hardware list for a finished order *)

\* C35: an update_order that brings a hardware list for an order that was
\* finished restores every old tracked line once and removes the old lines;
\* when the order stays finished it deducts every new tracked line once, so
\* that each item stands at stock before + old quantities - new quantities,
\* and when the order leaves finished in the same update the new lines are
\* not deducted
C35_ReplacedLinesSettled ==
    (OrderUpdated /\ last.hardware_set /\ last.old_status = "finished") =>
        LET old == last.order_before.order_hardware
            new == orders[last.id].order_hardware
        IN \A h \in HardwareIds :
              hardware[h] = last.stock_before[h] + TrackedOn(old, h)
                              - (IF last.new_status = "finished"
                                 THEN TrackedOn(new, h) ELSE 0)

\* a finished order has stayed finished with other tracked lines than before
C35_Witness ==
    /\ OrderUpdated /\ last.hardware_set
    /\ last.old_status = "finished" /\ last.new_status = "finished"
    /\ \E h \in HardwareIds :
        /\ TrackedOn(last.order_before.order_hardware, h) > 0
        /\ TrackedOn(orders[last.id].order_hardware, h) > 0
        /\ TrackedOn(last.order_before.order_hardware, h)
              # TrackedOn(orders[last.id].order_hardware, h)
        /\ hardware[h] # last.stock_before[h]

\* a finished order has left finished with a list in the same update
C35_LeavingReached ==
    /\ OrderUpdated /\ last.hardware_set
    /\ last.old_status = "finished" /\ last.new_status # "finished"
    /\ \E h \in HardwareIds :
        /\ TrackedOn(last.order_before.order_hardware, h) > 0
        /\ TrackedOn(orders[last.id].order_hardware, h) > 0

-----------------------------------------------------------------------------
(* print_jobs.py: the remaining weights and the completed print jobs *)

\* what the completed print jobs among the first n hold of spool s
RECURSIVE CompletedOn(_, _)
CompletedOn(n, s) ==
    IF n = 0 THEN 0
    ELSE (IF jobs[n].exists /\ jobs[n].status = "completed"
          THEN SumOn(Allocations(jobs[n]), s) ELSE 0)
         + CompletedOn(n - 1, s)

\* C36: with negative prevention disabled, after any create_print_job,
\* update_print_job and delete_print_job every spool holds what it held at
\* first less what the print jobs that exist and are completed have allocated
\* on it
C36_LedgerConserved ==
    (~prevent_of(settings) /\ jobHist[1].created_status # "none") =>
        \A s \in SpoolIds :
            spools[s] = jobHist[1].stock_before_create[s] - CompletedOn(MaxJobs, s)

\* an update that changed the status of a print job and nothing else, with
\* prevention disabled
C36_Witness ==
    /\ Updated /\ ~prevent_of(settings)
    /\ ~last.spools_set /\ ~last.amount_set /\ ~last.spool_id_set
    /\ jobs[last.id].status # last.job_before.status
    /\ Allocations(jobs[last.id]) # <<>>

-----------------------------------------------------------------------------
(* print_jobs.py: a legacy print job whose allocation list is replaced *)

\* a completed job in the legacy shape: one spool and an amount
LegacyJobInputs ==
    [spool_id : SpoolIds, filament_used_g : 1..MaxGrams, spools : {<<>>},
     status : {"completed"}, force : BOOLEAN]

\* an update that brings an allocation list, the empty one among them, and
\* nothing else
ReplaceInputs ==
    {PrintJobUpdate([set |-> FALSE, value |-> "none"], sl,
                    [set |-> FALSE, value |-> 0], [set |-> FALSE, value |-> 0], f) :
        sl \in Given(SpoolLists), f \in BOOLEAN}

NextLegacy ==
    \/ CreatePrintJobFrom(LegacyJobInputs)
    \/ UpdatePrintJobFrom(ReplaceInputs)
    \/ DeletePrintJob

SpecLegacy == Init /\ [][NextLegacy]_vars

\* C37: when a completed print job made in the legacy shape has had its
\* allocation list replaced, by the empty list too, and is then deleted, every
\* spool has been given back what was deducted from it for the job: with
\* prevention disabled every spool holds what it held before the job was made
C37_LegacyGivenBackOnce ==
    (Deleted /\ ~prevent_of(settings)) =>
        \A s \in SpoolIds : spools[s] = jobHist[last.id].stock_before_create[s]

\* a legacy job whose list was replaced by the empty list has been deleted
C37_Witness ==
    /\ Deleted /\ ~prevent_of(settings)
    /\ jobHist[last.id].updates > 0
    /\ last.job_before.print_job_spools = <<>>
    /\ last.job_before.spool_id # 0 /\ last.job_before.filament_used_g > 0

-----------------------------------------------------------------------------
(* orders.py: a finished order that is sold *)

\* C38: an update_order that moves an order from finished to sold, no hardware
\* list supplied, leaves every hardware item's stock unchanged
C38_SoldStaysConsumed ==
    (/\ OrderUpdated /\ ~last.hardware_set
     /\ last.old_status = "finished" /\ last.new_status = "sold"
     /\ ordHist[last.id].was_deducted)
        => hardware = last.stock_before

\* a finished order with tracked lines has been sold without a hardware list
C38_Witness ==
    /\ OrderUpdated /\ ~last.hardware_set
    /\ last.old_status = "finished" /\ last.new_status = "sold"
    /\ orders[last.id].status = "sold"
    /\ ordHist[last.id].was_deducted
    /\ HasTracked(orders[last.id].order_hardware)

-----------------------------------------------------------------------------
(* product_on_hand.py: the hardware of a product that becomes an order *)

\* how often the hardware of its project was deducted for the product the last
\* conversion was made from: by its updates and by the conversion
LifetimeDeductions ==
    prodHist[last.id].deductions + (IF hardware # last.stock_before THEN 1 ELSE 0)

\* C39: when convert_to_order has made an order from a product whose project
\* has hardware, the hardware lines of that project have been deducted exactly
\* once over the creation, the updates and the conversion of the product
C39_DeductedExactlyOnce ==
    (Converted /\ has_hardware(projects, last.product_before.project_id)) =>
        LifetimeDeductions = 1

\* a product created as completed, its project with hardware, was converted
C39_Witness ==
    /\ Converted /\ has_hardware(projects, last.product_before.project_id)
    /\ prodHist[last.id].created_status = "completed"
    /\ LifetimeDeductions = 0

\* a product completed twice was converted
C39_TwiceReached ==
    /\ Converted /\ has_hardware(projects, last.product_before.project_id)
    /\ LifetimeDeductions = 2

-----------------------------------------------------------------------------
(* orders.py, product_on_hand.py: the sign of the hardware stock *)

\* the last request was a committed update_order, update_product_on_hand or
\* convert_to_order
StockWriterSucceeded == OrderUpdated \/ ProductUpdated \/ Converted

\* C40: when every hardware item's stock was at least 0 before it, a successful
\* update_order, update_product_on_hand or convert_to_order leaves no hardware
\* item's stock below 0, the same item on several lines included
C40_StockNeverNegative ==
    (StockWriterSucceeded /\ \A h \in HardwareIds : last.stock_before[h] >= 0) =>
        \A h \in HardwareIds : hardware[h] >= 0

\* an update that took a product from printed to completed, its project listing
\* one hardware item on two lines, each covered by the stock and not both
C40_Witness ==
    /\ ProductUpdated
    /\ last.product_before.status = "printed"
    /\ \A h \in HardwareIds : last.stock_before[h] >= 0
    /\ LET lines == ProjectLines(last.product_before)
       IN /\ Len(lines) = 2
          /\ lines[1].hardware_item_id = lines[2].hardware_item_id
          /\ StockCovers(last.stock_before, lines)
          /\ hardware[lines[1].hardware_item_id] < 0

\* the same through the conversion of a printed product
C40_ConversionReached ==
    /\ Converted
    /\ \A h \in HardwareIds : last.stock_before[h] >= 0
    /\ \E h \in HardwareIds : hardware[h] < 0

====
